---- MODULE Spec2Model ----
(***************************************************************************)
(* State-machine model of the ownership / interior-mutability primitives   *)
(* of libsafecxx (std2): arc, rc, ref_cell, mutex.                         *)
(*                                                                         *)
(* Each component has its own variables, its own actions and its own       *)
(* specification (SpecArc, SpecRc, ...); Spec runs all of them together.   *)
(***************************************************************************)
EXTENDS Integers, FiniteSets, Sequences, TLC

(***************************************************************************)
(* Bounds of the model.                                                    *)
(***************************************************************************)
\* number of OS threads holding arc handles
NumArcThreads == 3
\* number of arc handles that may ever be constructed for the one block
MaxArcHandles == 4
\* number of rc handles that may ever be constructed for the one block
MaxRcHandles == 5

ArcThreads == 1..NumArcThreads
ArcHandles == 1..MaxArcHandles
RcHandles == 1..MaxRcHandles

\* number of guard objects (ref, ref_mut) of the ref_cell alive at once
MaxCellGuards == 4
\* payload values of the ref_cell are 0..MaxCellValue
MaxCellValue == 1
\* number of OS threads sharing the mutex
NumMtxThreads == 3
\* payload values of the mutex are 0..MaxMtxValue
MaxMtxValue == 1
\* mutex_test: number of lock / increment rounds of each adder thread
AdderIters == 2
\* number of OS threads sharing the shared_mutex
NumSmtxThreads == 4
\* number of shared_lock_guard objects one thread may hold at once
MaxSharedGuards == 2
\* payload values of the shared_mutex are 0..MaxSmtxValue
MaxSmtxValue == 1
\* shared_mutex_test: number of writer threads (the other threads read)
NumRwWriters == 2
\* shared_mutex_test: number of lock / increment rounds of each writer
RwIters == 2

\* values of the atomic<int> are -MaxAtomicValue..MaxAtomicValue
MaxAtomicValue == 3
\* operands of its operations are 0..MaxAtomicOp
MaxAtomicOp == 2
\* number of box objects the one allocation may pass through by relocation
MaxBoxObjs == 3
\* payload values of the box are 0..MaxBoxValue
MaxBoxValue == 2
\* payload values of an optional are 0..MaxOptValue
MaxOptValue == 4
\* the messages callers pass to expect are 1..MaxOptMsg
MaxOptMsg == 3
\* the error values handed to ok_or are 1..MaxOptErr
MaxOptErr == 2
\* the values a cell<T> holds are 0..MaxCopyValue
MaxCopyValue == 9
\* number of std2::thread handles a program makes
NumThHandles == 3
\* handles to one allocation in the allocation-failure model
MaxAfHandles == 4
\* operations counted on a handle whose pointer is null
MaxAfNullOps == 4
\* members of a class whose send / sync is derived from its members
NumTcThreads == 2

MaxTcArg == 1

NumLgThreads == 3

MaxLgLocks == 2

BorrowBits == 4

MaxBwLive == 2

NumRccBlocks == 2

NumRccHandles == 3

NumRccGuards == 2

NumCntThreads == 3

MaxCntStart == 3

MaxCapMembers == 2

VARIABLES
  \* ---- arc<T>: one control block (arc_inner), handles spread over threads
  arc_block,      \* heap block: "none" | "allocated" | "freed"
  arc_data,       \* manually_drop<T> data_: "uninit" | "alive" | "destroyed"
  arc_strong,     \* atomic<size_t> strong_
  arc_weak,       \* atomic<size_t> weak_
  arc_handle,     \* per handle: "unborn" | "copying" | "live" | "dtor" | "dead"
  arc_owner,      \* per handle: owning thread (0 = none)
  arc_pc,         \* per thread: "idle" | "copy" | "destroy" | "weak" | "free"
  arc_cur,        \* per thread: handle whose constructor / destructor runs
  arc_zero,       \* handles whose destructor's decrement left strong_ at 0
  arc_log,        \* destroy / weak-decrement / free events, in order
  arc_read,       \* what the last operator-> found: "none" | "alive" |
                  \* "destroyed" | "freed"
  \* ---- rc<T>: one control block (rc_inner), one thread
  rc_block,
  rc_data,
  rc_strong,      \* size_t strong_
  rc_weak,        \* size_t weak_
  rc_handle,      \* per handle: "unborn" | "live" | "dtor" | "dead"
  rc_pc,          \* "idle" | "destroy" | "weak" | "free"
  rc_cur,         \* handle whose destructor runs (0 = none)
  rc_zero,        \* handles whose destructor's decrement left strong_ at 0
  rc_log,         \* destroy / weak-decrement / free events, in order
  rc_read,
  \* ---- ref_cell<T>: one cell, one thread
  cell_t,         \* unsafe_cell<T> t_: the payload
  cell_borrow,    \* cell<int> borrow_count_
  cell_guard,     \* per guard slot: "none" | "ref" | "ref_mut"
  cell_panicked,  \* panic() has called abort()
  cell_last,      \* the last call: [op, ret, pre, post]
  \* ---- mutex<T>: one mutex shared by several threads
  mtx_data,       \* unsafe_cell<T> data_: the payload
  mtx_owner,      \* std::mutex behind mtx_: thread holding it (0 = unlocked)
  mtx_pc,         \* per thread: "idle" | "locking"
  mtx_guards,     \* per thread: number of live lock_guard objects it holds
  mtx_borrow,     \* per thread: holds a T^ obtained from guard.borrow()
  mtx_seen,       \* per thread: the payload value it last read (-1 = none)
  mtx_unlocks,    \* number of std::mutex::unlock calls made while unlocked
  \* ---- mutex_test: adder threads and the main thread, on the mutex above
  add_pc,         \* per thread: "join" (main) | "loop" | "lock"
                  \* | "borrow" | "read" | "write" | "endborrow" | "drop"
                  \* | "done"
  add_i,          \* per thread: the loop counter i of adder
  add_init,       \* the value the mutex was constructed with
  add_val,        \* main's val (-1 = not read yet)
  \* ---- shared_mutex<T>: one shared_mutex shared by several threads
  smtx_data,      \* unsafe_cell<T> data_: the payload
  smtx_writer,    \* std::shared_mutex behind mtx_: exclusive holder (0 = none)
  smtx_readers,   \* std::shared_mutex behind mtx_: number of shared holds
  smtx_pc,        \* per thread: "idle" | "lock" | "lock_shared"
  smtx_lg,        \* per thread: number of live lock_guard objects it holds
  smtx_sg,        \* per thread: number of live shared_lock_guard objects
  smtx_err,       \* per thread: its last lock call left by an exception
  \* ---- shared_mutex_test: writer and reader threads on the shared_mutex
  rw_pc,          \* per thread: "loop" | "lock" | "read" | "write" | "drop"
                  \* | "done"
  rw_i,           \* per writer: the loop counter i
  rw_v,           \* per thread: the value it loaded (the reader's v, the
                  \* writer's temporary of += 1), 0 while no use of it is ahead
  rw_done,        \* number of writer updates completed so far
  rw_obs,         \* the last read by a reader: [v, n, mid], the value read,
                  \* rw_done at the read, whether a writer held the lock
  \* ---- atomic<int>: one object
  atom_t,         \* std::atomic<T> t_
  atom_last,      \* the last call: [op, arg, pre, ret]
  \* ---- box<T>: one heap allocation and the box objects that own it in turn
  box_impl,       \* "none" | "include" (include/std2/box.h) | "single"
                  \* (single-header/std2.h)
  box_heap,       \* the allocation behind p_: "none" | "allocated" | "freed"
  box_slot,       \* the T in it: "uninit" | "alive" | "moved" | "destroyed"
  box_val,        \* the value of the T in the allocation
  box_obj,        \* per box object: "unborn" | "owner" | "moved" |
                  \* "consumed" | "gone"
  box_log,        \* "relocate" (payload relocated out of the allocation) /
                  \* "destroy" (payload's destructor) / "free" events, in order
  box_given,      \* the value last put into the box (constructor or write)
  box_read,       \* what the last dereference yielded (-1 = none yet)
  box_leaked,     \* leak() has returned the pointer
  box_inner,      \* the T returned by into_inner() (-1 = none)
  \* ---- optional<T>
  opt_mx,         \* the optional a caller holds: [tag, t]
  opt_last,       \* the last accessor call: [fn, self, msg, ret] (ret = -1:
                  \* it did not return)
  opt_panic,      \* -1 while the program runs, else the message panic printed
                  \* before abort()
  opt_mx2,        \* the expected a caller holds: [tag, t] ("unset" before the
                  \* first ok_or)
  opt_res,        \* the last take / take_if: [out, calls, dtors]: the
                  \* optional returned, how often the predicate was called and
                  \* how many payload destructors ran
  \* ---- cell<T>
  cl_t,           \* the T in the unsafe_cell member t_
  cl_put,         \* the value the constructor, set or replace stored last
  cl_last,        \* the last call: [fn, arg, ret]
  \* ---- thread
  th_run,         \* per handle, its spawned callable: "unborn" | "running" |
                  \* "done"
  th_handle,      \* per handle: "none" | "live" | "joining" (inside join) |
                  \* "joined" | "detached" | "gone" (consumed, scope ended)
  th_ops,         \* per handle: [joins, detaches], the std::thread::join and
                  \* detach calls that have returned
  \* ---- box / arc / rc when the allocation in the constructor fails
  af_obj,         \* [kind, impl]: "box" | "arc" | "rc" ("none" before the
                  \* constructor), "include" | "single"
  af_p,           \* p_ of the handles: "none" | "valid" | "null"
  af_handles,     \* number of live handles
  af_nullops,     \* operations run on a handle whose p_ is null
  af_status,      \* "running" | "thrown" (std::bad_alloc propagating) |
                  \* "terminated" | "crashed"
  \* ---- send / sync of types
  cap_ty,         \* the type at hand, as its capabilities [send, sync]
  cap_members,    \* the member types collected for a class, as capabilities
  cap_last,       \* the last type formed: [w, arg, members, res]
  \* ---- atomic<int> shared by threads
  cnt_made,       \* the counter has been constructed
  cnt_x,          \* the value it was constructed with
  cnt_t,          \* std::atomic<T> t_: the value held
  cnt_pc,         \* thread -> "ready" | "add_fetch" | "++x" (the call it made)
  cnt_ret,        \* thread -> the value its call returned
  \* ---- rc<ref_cell<int>>: handles to blocks that each hold a ref_cell
  rcc_p,          \* handle -> rc_inner* p_ (0: no such handle)
  rcc_obj,        \* handle -> the block it was made for (kept apart from p_)
  rcc_strong,     \* block -> strong_ (0: not allocated)
  rcc_borrow,     \* block -> borrow_count_ of the ref_cell it holds
  rcc_guard,      \* guard -> [kind, via, value, cnt]: a ref / ref_mut, the
                  \* handle it was taken through, T* value_ and borrow_
  rcc_last,       \* the last borrow: [op, via, ret, conflict]
  \* ---- ref_cell<T>: the borrow counter as an int of fixed width
  bw_borrow,      \* cell<int> borrow_count_, a signed integer of BorrowBits bits
  bw_live,        \* the refs that are live (not destroyed, not forgotten)
  bw_last,        \* the last call: [op, pre, post, ret]
  \* ---- mutex<T>: a lock_guard and the threads it can reach
  lg_mutex,       \* the mutex: [made, static, T] (static storage duration or
                  \* not; T the capabilities of the payload type)
  lg_thread,      \* thread -> "unborn" | "running"
  lg_owner,       \* the thread that holds the std::mutex (0: unlocked)
  lg_guard,       \* the thread that has the lock_guard (0: no guard)
  lg_maker,       \* the thread whose lock() made that guard
  lg_locks,       \* std::mutex::lock() calls that have returned
  lg_unlocks,     \* std::mutex::unlock() calls made
  lg_last,        \* the last unlock: [op, by, owner, maker]
  \* ---- thread::thread and thread::call: the heap tuple (F, (Args...))
  tc_ctor,        \* thread -> where its constructor is: "none" | "boxed" |
                  \* "started" | "done" | "thrown"
  tc_run,         \* thread -> where call is: "unborn" | "entered" | "rebuilt" |
                  \* "unboxed" | "done"
  tc_args,        \* thread -> the arguments given to the constructor
  tc_heap,        \* thread -> the heap tuple: [mem, val] ("none" | "allocated" |
                  \* "freed", and the arguments stored in it)
  tc_tup,         \* thread -> the tuple call took out of the box (-1: none)
  tc_log,         \* thread -> what was done to the heap tuple: [ev, by]
  tc_calls        \* thread -> the arguments of each invocation of the callable

arc_vars == <<arc_block, arc_data, arc_strong, arc_weak, arc_handle, arc_owner,
              arc_pc, arc_cur, arc_zero, arc_log, arc_read>>

rc_vars == <<rc_block, rc_data, rc_strong, rc_weak, rc_handle, rc_pc, rc_cur,
             rc_zero, rc_log, rc_read>>

cell_vars == <<cell_t, cell_borrow, cell_guard, cell_panicked, cell_last>>

mtx_vars == <<mtx_data, mtx_owner, mtx_pc, mtx_guards, mtx_borrow, mtx_seen,
              mtx_unlocks>>

add_vars == <<add_pc, add_i, add_init, add_val>>

smtx_vars == <<smtx_data, smtx_writer, smtx_readers, smtx_pc, smtx_lg,
               smtx_sg, smtx_err>>

rw_vars == <<rw_pc, rw_i, rw_v, rw_done, rw_obs>>

atom_vars == <<atom_t, atom_last>>

box_vars == <<box_impl, box_heap, box_slot, box_val, box_obj, box_log,
              box_given, box_read, box_leaked, box_inner>>

opt_vars == <<opt_mx, opt_last, opt_panic>>

exp_vars == <<opt_mx2, opt_res>>

cl_vars == <<cl_t, cl_put, cl_last>>

th_vars == <<th_run, th_handle, th_ops>>

af_vars == <<af_obj, af_p, af_handles, af_nullops, af_status>>

cap_vars == <<cap_ty, cap_members, cap_last>>

cnt_vars == <<cnt_made, cnt_x, cnt_t, cnt_pc, cnt_ret>>

rcc_vars == <<rcc_p, rcc_obj, rcc_strong, rcc_borrow, rcc_guard, rcc_last>>

bw_vars == <<bw_borrow, bw_live, bw_last>>

lg_vars == <<lg_mutex, lg_thread, lg_owner, lg_guard, lg_maker, lg_locks,
             lg_unlocks, lg_last>>

tc_vars == <<tc_ctor, tc_run, tc_args, tc_heap, tc_tup, tc_log, tc_calls>>

vars ==
  <<arc_vars, rc_vars, cell_vars, mtx_vars, add_vars, smtx_vars, rw_vars,
    atom_vars, box_vars, opt_vars, exp_vars, cl_vars, th_vars, af_vars,
    cap_vars, cnt_vars, rcc_vars, bw_vars, lg_vars, tc_vars>>

\* what the actions of one component leave alone
not_arc ==
  <<rc_vars, cell_vars, mtx_vars, add_vars, smtx_vars, rw_vars, atom_vars,
    box_vars, opt_vars, exp_vars, cl_vars, th_vars, af_vars, cap_vars,
    cnt_vars, rcc_vars, bw_vars, lg_vars, tc_vars>>

not_rc ==
  <<arc_vars, cell_vars, mtx_vars, add_vars, smtx_vars, rw_vars,
    atom_vars, box_vars, opt_vars, exp_vars, cl_vars, th_vars, af_vars,
    cap_vars, cnt_vars, rcc_vars, bw_vars, lg_vars, tc_vars>>

not_cell ==
  <<arc_vars, rc_vars, mtx_vars, add_vars, smtx_vars, rw_vars, atom_vars,
    box_vars, opt_vars, exp_vars, cl_vars, th_vars, af_vars, cap_vars,
    cnt_vars, rcc_vars, bw_vars, lg_vars, tc_vars>>

\* (the programs that run on the mutex say themselves what they change)
not_mtx ==
  <<arc_vars, rc_vars, cell_vars, smtx_vars, rw_vars, atom_vars, box_vars,
    opt_vars, exp_vars, cl_vars, th_vars, af_vars, cap_vars, cnt_vars,
    rcc_vars, bw_vars, lg_vars, tc_vars>>

not_smtx ==
  <<arc_vars, rc_vars, cell_vars, mtx_vars, add_vars, atom_vars, box_vars,
    opt_vars, exp_vars, cl_vars, th_vars, af_vars, cap_vars, cnt_vars,
    rcc_vars, bw_vars, lg_vars, tc_vars>>

(***************************************************************************)
(* atomic<T>: the wrapper over std::atomic<T>.  Every operation yields the *)
(* value left in the counter (val) and the value returned (ret).           *)
(***************************************************************************)
\* std::atomic<T>::fetch_add / fetch_sub: one indivisible read-modify-write
\* returning the value held before it.
std_fetch_add(x, op) == [val |-> x + op, ret |-> x]

std_fetch_sub(x, op) == [val |-> x - op, ret |-> x]

\* return self->t_.get()&->fetch_add(op, memory_order) + op;
fetch_add(x, op) ==
  LET r == std_fetch_add(x, op) IN [val |-> r.val, ret |-> r.ret + op]

\* return self->t_.get()&->fetch_sub(op, memory_order);
fetch_sub(x, op) ==
  LET r == std_fetch_sub(x, op) IN [val |-> r.val, ret |-> r.ret]

\* return self->t_.get()&->fetch_add(op, memory_order) + op;
add_fetch(x, op) ==
  LET r == std_fetch_add(x, op) IN [val |-> r.val, ret |-> r.ret + op]

\* return self->t_.get()&->fetch_sub(op, memory_order) - op;
sub_fetch(x, op) ==
  LET r == std_fetch_sub(x, op) IN [val |-> r.val, ret |-> r.ret - op]

\* (mutant) an increment that is lost: the counter keeps its value
atomic_pre_inc_lost(x) == [val |-> x, ret |-> x]

\* T operator++(self const^): return self->add_fetch(1)
atomic_pre_inc(x) == add_fetch(x, 1)

\* (mutant) the decrement returns the value held before it
atomic_pre_dec_old(x) == fetch_sub(x, 1)

\* T operator--(self const^): return self->sub_fetch(1)
atomic_pre_dec(x) == sub_fetch(x, 1)

(***************************************************************************)
(* Helpers                                                                 *)
(***************************************************************************)
Min(S) == CHOOSE x \in S : \A y \in S : x <= y

\* what a read through a handle's p_ finds
Observe(block, data) ==
  IF block = "freed" THEN "freed"
  ELSE IF data = "destroyed" THEN "destroyed"
  ELSE "alive"

\* the events of a log, without the handles and values
Events(log) == [i \in 1..Len(log) |-> log[i].ev]

\* the entries of a log that are the event ev
Entries(log, ev) == {i \in 1..Len(log) : log[i].ev = ev}

IsPrefix(s, t) == Len(s) <= Len(t) /\ \A i \in 1..Len(s) : s[i] = t[i]

(***************************************************************************)
(* atomic<int> as an object of its own                                     *)
(***************************************************************************)
not_atom ==
  <<arc_vars, rc_vars, cell_vars, mtx_vars, add_vars, smtx_vars, rw_vars,
    box_vars, opt_vars, exp_vars, cl_vars, th_vars, af_vars, cap_vars,
    cnt_vars, rcc_vars, bw_vars, lg_vars, tc_vars>>

AtomicValues == (0 - MaxAtomicValue)..MaxAtomicValue

AtomicOperands == 0..MaxAtomicOp

\* atomic(T t = T())
AtomicInit ==
  /\ atom_t = 0
  /\ atom_last = [op |-> "atomic", arg |-> 0, pre |-> 0, ret |-> 0]

\* T operator++(self const^, int): return self->fetch_add(1);
atomic_post_inc(x) == fetch_add(x, 1)

\* T operator--(self const^, int): return self->fetch_sub(1);
atomic_post_dec(x) == fetch_sub(x, 1)

\* the member functions that take an operand
AtomicMember(name, x, op) ==
  CASE name = "fetch_add" -> fetch_add(x, op)
    [] name = "fetch_sub" -> fetch_sub(x, op)
    [] name = "add_fetch" -> add_fetch(x, op)
    [] name = "sub_fetch" -> sub_fetch(x, op)

\* the increment and decrement operators
AtomicOperator(name, x) ==
  CASE name = "++x" -> atomic_pre_inc(x)
    [] name = "x++" -> atomic_post_inc(x)
    [] name = "--x" -> atomic_pre_dec(x)
    [] name = "x--" -> atomic_post_dec(x)

\* one call on the object with result r
AtomicCall(name, op, r) ==
  /\ r.val \in AtomicValues
  /\ atom_t' = r.val
  /\ atom_last' = [op |-> name, arg |-> op, pre |-> atom_t, ret |-> r.ret]
  /\ UNCHANGED not_atom

\* T load(self const^, memory_order): unsafe { self->t_.get()&.load(order); }
\* The body has no return statement: the std::atomic is read and the value
\* read is discarded, and control flows off the end of a function returning
\* T.  The caller receives whatever the build leaves in the return slot.
load(x) == [val : {x}, ret : AtomicValues]

AtomicLoad ==
  \E r \in load(atom_t) :
    /\ atom_t' = r.val
    /\ atom_last' = [op |-> "load", arg |-> 0, pre |-> atom_t, ret |-> r.ret]
    /\ UNCHANGED not_atom

\* void store(self const^, T op)
AtomicStore(v) ==
  /\ atom_t' = v
  /\ atom_last' = [op |-> "store", arg |-> v, pre |-> atom_t, ret |-> 0]
  /\ UNCHANGED not_atom

AtomicNext ==
  \/ \E name \in {"fetch_add", "fetch_sub", "add_fetch", "sub_fetch"},
        op \in AtomicOperands :
       AtomicCall(name, op, AtomicMember(name, atom_t, op))
  \/ \E name \in {"++x", "x++", "--x", "x--"} :
       AtomicCall(name, 1, AtomicOperator(name, atom_t))
  \/ \E v \in AtomicValues : AtomicStore(v)
  \/ AtomicLoad

(***************************************************************************)
(* arc<T>                                                                  *)
(***************************************************************************)
ArcInit ==
  /\ arc_block = "none"
  /\ arc_data = "uninit"
  /\ arc_strong = 0
  /\ arc_weak = 0
  /\ arc_handle = [h \in ArcHandles |-> "unborn"]
  /\ arc_owner = [h \in ArcHandles |-> 0]
  /\ arc_pc = [t \in ArcThreads |-> "idle"]
  /\ arc_cur = [t \in ArcThreads |-> 0]
  /\ arc_zero = {}
  /\ arc_log = <<>>
  /\ arc_read = "none"

ArcUnborn == {h \in ArcHandles : arc_handle[h] = "unborn"}

ArcLive == {h \in ArcHandles : arc_handle[h] = "live"}

\* arc(T t): allocate the block, construct arc_inner with strong_ = weak_ = 1
ArcNew(t) ==
  /\ arc_block = "none"
  /\ arc_pc[t] = "idle"
  /\ arc_block' = "allocated"
  /\ arc_data' = "alive"
  /\ arc_strong' = 1
  /\ arc_weak' = 1
  /\ arc_handle' = [arc_handle EXCEPT ![1] = "live"]
  /\ arc_owner' = [arc_owner EXCEPT ![1] = t]
  /\ UNCHANGED <<arc_pc, arc_cur, arc_zero, arc_log, arc_read, not_arc>>

\* (mutant) the handle copied from may be one whose destructor has run
arc_const_borrow_dangling(t, rhs) == arc_handle[rhs] \in {"live", "dead"}

\* arc const^ rhs: the copying thread holds a shared borrow of a handle it
\* can name, which is live and stays so until the borrow ends
arc_const_borrow(t, rhs) == arc_handle[rhs] = "live" /\ arc_owner[rhs] = t

\* arc(arc const^ rhs), member initialiser: p_(rhs->p_)
ArcCopyInit(t, rhs) ==
  /\ arc_pc[t] = "idle"
  /\ arc_const_borrow(t, rhs)
  /\ ArcUnborn # {}
  /\ LET h == Min(ArcUnborn) IN
       /\ arc_handle' = [arc_handle EXCEPT ![h] = "copying"]
       /\ arc_owner' = [arc_owner EXCEPT ![h] = t]
       /\ arc_cur' = [arc_cur EXCEPT ![t] = h]
  /\ arc_pc' = [arc_pc EXCEPT ![t] = "copy"]
  /\ UNCHANGED <<arc_block, arc_data, arc_strong, arc_weak, arc_zero,
                 arc_log, arc_read, not_arc>>

\* arc(arc const^ rhs), body: ++p_->strong_ ; the finished handle is then
\* kept by the copying thread or relocated into another thread (t2).
ArcCopyIncr(t, t2) ==
  /\ arc_pc[t] = "copy"
  /\ LET h == arc_cur[t]
         r == atomic_pre_inc(arc_strong) IN
       /\ arc_strong' = r.val
       /\ arc_handle' = [arc_handle EXCEPT ![h] = "live"]
       /\ arc_owner' = [arc_owner EXCEPT ![h] = t2]
  /\ arc_pc' = [arc_pc EXCEPT ![t] = "idle"]
  /\ arc_cur' = [arc_cur EXCEPT ![t] = 0]
  /\ UNCHANGED <<arc_block, arc_data, arc_weak, arc_zero, arc_log, arc_read,
                 not_arc>>

\* (mutant) the last owner frees the block without destroying the payload
arc_after_strong_skip(s) == IF s = 0 THEN "weak" ELSE "done"

\* ~arc(): if (s == 0) { destroy ... } else the destructor is done
arc_after_strong(s) == IF s = 0 THEN "destroy" ELSE "done"

\* (mutant) the block is kept whatever the weak count
arc_after_weak_keep(w) == "done"

\* ~arc(): if (w == 0) { delete } else the destructor is done
arc_after_weak(w) == IF w = 0 THEN "free" ELSE "done"

\* ~arc(): std::size_t s = --p_->strong_; if (s == 0) ...
ArcDropDec(t, h) ==
  /\ arc_pc[t] = "idle"
  /\ arc_handle[h] = "live"
  /\ arc_owner[h] = t
  /\ LET r == atomic_pre_dec(arc_strong)
         to == arc_after_strong(r.ret) IN
       /\ arc_strong' = r.val
       /\ arc_zero' = IF r.val = 0 THEN arc_zero \cup {h} ELSE arc_zero
       /\ IF to = "done"
            THEN /\ arc_handle' = [arc_handle EXCEPT ![h] = "dead"]
                 /\ UNCHANGED <<arc_pc, arc_cur>>
            ELSE /\ arc_handle' = [arc_handle EXCEPT ![h] = "dtor"]
                 /\ arc_pc' = [arc_pc EXCEPT ![t] = to]
                 /\ arc_cur' = [arc_cur EXCEPT ![t] = h]
  /\ UNCHANGED <<arc_block, arc_data, arc_weak, arc_owner, arc_log, arc_read,
                 not_arc>>

\* ~arc(): p_->data_.destroy()
ArcDropDestroy(t) ==
  /\ arc_pc[t] = "destroy"
  /\ arc_data' = "destroyed"
  /\ arc_log' = Append(arc_log, [ev |-> "destroy", h |-> arc_cur[t], val |-> 0])
  /\ arc_pc' = [arc_pc EXCEPT ![t] = "weak"]
  /\ UNCHANGED <<arc_block, arc_strong, arc_weak, arc_handle, arc_owner,
                 arc_cur, arc_zero, arc_read, not_arc>>

\* ~arc(): std::size_t w = --p_->weak_; if (w == 0) ...
ArcDropWeak(t) ==
  /\ arc_pc[t] = "weak"
  /\ LET r == atomic_pre_dec(arc_weak)
         to == arc_after_weak(r.ret) IN
       /\ arc_weak' = r.val
       /\ arc_log' = Append(arc_log,
                            [ev |-> "weak", h |-> arc_cur[t], val |-> r.val])
       /\ IF to = "done"
            THEN /\ arc_pc' = [arc_pc EXCEPT ![t] = "idle"]
                 /\ arc_handle' = [arc_handle EXCEPT ![arc_cur[t]] = "dead"]
                 /\ arc_cur' = [arc_cur EXCEPT ![t] = 0]
            ELSE /\ arc_pc' = [arc_pc EXCEPT ![t] = to]
                 /\ UNCHANGED <<arc_handle, arc_cur>>
  /\ UNCHANGED <<arc_block, arc_data, arc_strong, arc_owner, arc_zero,
                 arc_read, not_arc>>

\* ~arc(): ::operator delete(p_)
ArcDropFree(t) ==
  /\ arc_pc[t] = "free"
  /\ arc_block' = "freed"
  /\ arc_log' = Append(arc_log, [ev |-> "free", h |-> arc_cur[t], val |-> 0])
  /\ arc_handle' = [arc_handle EXCEPT ![arc_cur[t]] = "dead"]
  /\ arc_pc' = [arc_pc EXCEPT ![t] = "idle"]
  /\ arc_cur' = [arc_cur EXCEPT ![t] = 0]
  /\ UNCHANGED <<arc_data, arc_strong, arc_weak, arc_owner, arc_zero,
                 arc_read, not_arc>>

\* T const^ operator->(self const^): borrow of p_->data_ through a live handle
ArcDeref(t, h) ==
  /\ arc_pc[t] = "idle"
  /\ arc_handle[h] = "live"
  /\ arc_owner[h] = t
  /\ arc_read' = Observe(arc_block, arc_data)
  /\ UNCHANGED <<arc_block, arc_data, arc_strong, arc_weak, arc_handle,
                 arc_owner, arc_pc, arc_cur, arc_zero, arc_log, not_arc>>

\* every step of the arc but the construction of the block
ArcRun ==
  \/ \E t \in ArcThreads, h \in ArcHandles : ArcCopyInit(t, h)
  \/ \E t \in ArcThreads, t2 \in ArcThreads : ArcCopyIncr(t, t2)
  \/ \E t \in ArcThreads, h \in ArcHandles : ArcDropDec(t, h)
  \/ \E t \in ArcThreads : ArcDropDestroy(t)
  \/ \E t \in ArcThreads : ArcDropWeak(t)
  \/ \E t \in ArcThreads : ArcDropFree(t)
  \/ \E t \in ArcThreads, h \in ArcHandles : ArcDeref(t, h)

ArcNext ==
  \/ \E t \in ArcThreads : ArcNew(t)
  \/ ArcRun

(***************************************************************************)
(* rc<T>                                                                   *)
(***************************************************************************)
RcInit ==
  /\ rc_block = "none"
  /\ rc_data = "uninit"
  /\ rc_strong = 0
  /\ rc_weak = 0
  /\ rc_handle = [h \in RcHandles |-> "unborn"]
  /\ rc_pc = "idle"
  /\ rc_cur = 0
  /\ rc_zero = {}
  /\ rc_log = <<>>
  /\ rc_read = "none"

RcUnborn == {h \in RcHandles : rc_handle[h] = "unborn"}

RcLive == {h \in RcHandles : rc_handle[h] = "live"}

\* rc(T t): new rc_inner with strong_ = weak_ = 1
RcNew ==
  /\ rc_block = "none"
  /\ rc_pc = "idle"
  /\ rc_block' = "allocated"
  /\ rc_data' = "alive"
  /\ rc_strong' = 1
  /\ rc_weak' = 1
  /\ rc_handle' = [rc_handle EXCEPT ![1] = "live"]
  /\ UNCHANGED <<rc_pc, rc_cur, rc_zero, rc_log, rc_read, not_rc>>

\* (mutant) the copy forgets to count itself
rc_pre_inc_lost(x) == x

\* ++p_->strong_  on a plain std::size_t
rc_pre_inc(x) == x + 1

\* --p_->strong_ , --p_->weak_  on a plain std::size_t
rc_pre_dec(x) == x - 1

\* rc(rc const^ rhs): p_(rhs->p_), ++p_->strong_
RcCopy(rhs) ==
  /\ rc_pc = "idle"
  /\ rc_handle[rhs] = "live"
  /\ RcUnborn # {}
  /\ rc_strong' = rc_pre_inc(rc_strong)
  /\ rc_handle' = [rc_handle EXCEPT ![Min(RcUnborn)] = "live"]
  /\ UNCHANGED <<rc_block, rc_data, rc_weak, rc_pc, rc_cur, rc_zero, rc_log,
                 rc_read, not_rc>>

\* ~rc(): if (s == 0) { destroy ... } else the destructor is done
rc_after_strong(s) == IF s = 0 THEN "destroy" ELSE "done"

\* ~rc(): if (w == 0) { delete } else the destructor is done
rc_after_weak(w) == IF w = 0 THEN "free" ELSE "done"

\* ~rc(): std::size_t s = --p_->strong_; if (s == 0) ...
RcDropDec(h) ==
  /\ rc_pc = "idle"
  /\ rc_handle[h] = "live"
  /\ LET s == rc_pre_dec(rc_strong)
         to == rc_after_strong(s) IN
       /\ rc_strong' = s
       /\ rc_zero' = IF s = 0 THEN rc_zero \cup {h} ELSE rc_zero
       /\ IF to = "done"
            THEN /\ rc_handle' = [rc_handle EXCEPT ![h] = "dead"]
                 /\ UNCHANGED <<rc_pc, rc_cur>>
            ELSE /\ rc_handle' = [rc_handle EXCEPT ![h] = "dtor"]
                 /\ rc_pc' = to
                 /\ rc_cur' = h
  /\ UNCHANGED <<rc_block, rc_data, rc_weak, rc_log, rc_read, not_rc>>

\* ~rc(): p_->data_.destroy()
RcDropDestroy ==
  /\ rc_pc = "destroy"
  /\ rc_data' = "destroyed"
  /\ rc_log' = Append(rc_log, [ev |-> "destroy", h |-> rc_cur, val |-> 0])
  /\ rc_pc' = "weak"
  /\ UNCHANGED <<rc_block, rc_strong, rc_weak, rc_handle, rc_cur, rc_zero,
                 rc_read, not_rc>>

\* ~rc(): std::size_t w = --p_->weak_; if (w == 0) ...
RcDropWeak ==
  /\ rc_pc = "weak"
  /\ LET w == rc_pre_dec(rc_weak)
         to == rc_after_weak(w) IN
       /\ rc_weak' = w
       /\ rc_log' = Append(rc_log, [ev |-> "weak", h |-> rc_cur, val |-> w])
       /\ IF to = "done"
            THEN /\ rc_pc' = "idle"
                 /\ rc_handle' = [rc_handle EXCEPT ![rc_cur] = "dead"]
                 /\ rc_cur' = 0
            ELSE /\ rc_pc' = to
                 /\ UNCHANGED <<rc_handle, rc_cur>>
  /\ UNCHANGED <<rc_block, rc_data, rc_strong, rc_zero, rc_read, not_rc>>

\* ~rc(): delete p_
RcDropFree ==
  /\ rc_pc = "free"
  /\ rc_block' = "freed"
  /\ rc_log' = Append(rc_log, [ev |-> "free", h |-> rc_cur, val |-> 0])
  /\ rc_handle' = [rc_handle EXCEPT ![rc_cur] = "dead"]
  /\ rc_pc' = "idle"
  /\ rc_cur' = 0
  /\ UNCHANGED <<rc_data, rc_strong, rc_weak, rc_zero, rc_read, not_rc>>

\* operator-> / operator*: borrow of p_->data_ through a live handle
RcDeref(h) ==
  /\ rc_pc = "idle"
  /\ rc_handle[h] = "live"
  /\ rc_read' = Observe(rc_block, rc_data)
  /\ UNCHANGED <<rc_block, rc_data, rc_strong, rc_weak, rc_handle, rc_pc,
                 rc_cur, rc_zero, rc_log, not_rc>>

\* every step of the rc but the construction of the block
RcRun ==
  \/ \E h \in RcHandles : RcCopy(h)
  \/ \E h \in RcHandles : RcDropDec(h)
  \/ RcDropDestroy
  \/ RcDropWeak
  \/ RcDropFree
  \/ \E h \in RcHandles : RcDeref(h)

RcNext ==
  \/ RcNew
  \/ RcRun

(***************************************************************************)
(* ref_cell<T>                                                             *)
(***************************************************************************)
CellGuards == 1..MaxCellGuards

CellValues == 0..MaxCellValue

CellRefs == {g \in CellGuards : cell_guard[g] = "ref"}

CellRefMuts == {g \in CellGuards : cell_guard[g] = "ref_mut"}

CellFree == {g \in CellGuards : cell_guard[g] = "none"}

\* counter, payload and live guards, as a call finds or leaves them
CellSnap(b, t, g) ==
  [c |-> b, t |-> t,
   refs |-> Cardinality({x \in CellGuards : g[x] = "ref"}),
   muts |-> Cardinality({x \in CellGuards : g[x] = "ref_mut"})]

\* ref_cell(T t): t_(rel t), borrow_count_{0}
CellInit ==
  /\ cell_t \in CellValues
  /\ cell_borrow = 0
  /\ cell_guard = [g \in CellGuards |-> "none"]
  /\ cell_panicked = FALSE
  /\ cell_last = [op |-> "ref_cell", ret |-> "-",
                  pre |-> CellSnap(0, cell_t, cell_guard),
                  post |-> CellSnap(0, cell_t, cell_guard)]

\* ref::ref(T*, cell<int> const^):  borrow_.set(borrow_.get() + 1)
ref_ctor(b) == b + 1

\* (mutant) the destructor of ref leaves the counter as it is
ref_dtor_lost(b) == b

\* ref::~ref():  auto b = borrow_.get(); borrow_.set(b - 1)
ref_dtor(b) == b - 1

\* ref_mut::ref_mut(T*, cell<int> const^):  borrow_.set(borrow_.get() - 1)
ref_mut_ctor(b) == b - 1

\* (mutant) the destructor of ref_mut leaves the counter as it is
ref_mut_dtor_lost(b) == b

\* ref_mut::~ref_mut():  auto b = borrow_.get(); borrow_.set(b + 1)
ref_mut_dtor(b) == b + 1

\* (mutant) a shared borrow is refused while any borrow is out
try_borrow_ret_alone(b) == IF b # 0 THEN "none" ELSE "some"

\* (mutant) the test for a live ref_mut is off by one
try_borrow_ret_off(b) == IF b < -1 THEN "none" ELSE "some"

\* try_borrow:  if (b < 0) return .none;  else .some(ref{...})
try_borrow_ret(b) == IF b < 0 THEN "none" ELSE "some"

\* (mutant) the test for a live ref_mut is missing
try_borrow_mut_ret_stacked(b) == IF b > 0 THEN "none" ELSE "some"

\* try_borrow_mut:  if (b > 0) return .none;  if (b == -1) return .none;
try_borrow_mut_ret(b) ==
  IF b > 0 THEN "none" ELSE IF b = -1 THEN "none" ELSE "some"

\* (mutant) the .none arm hands out a guard instead of panicking
match_or_panic_never(opt) == "some"

\* borrow / borrow_mut:  match(rel opt) { .some(b) => rel b; .none => panic(..) }
match_or_panic(opt) == IF opt = "some" THEN "some" ELSE "panic"

\* The state change of one call: the guard it constructs (kind, "none" for
\* no guard), the counter it leaves, whether it aborts, and its record.
CellCall(op, ret, kind, b) ==
  /\ cell_borrow' = b
  /\ IF kind = "none"
       THEN cell_guard' = cell_guard
       ELSE /\ CellFree # {}
            /\ cell_guard' = [cell_guard EXCEPT ![Min(CellFree)] = kind]
  /\ cell_panicked' = (ret = "panic")
  /\ cell_last' = [op |-> op, ret |-> ret,
                   pre |-> CellSnap(cell_borrow, cell_t, cell_guard),
                   post |-> CellSnap(b, cell_t, cell_guard')]
  /\ UNCHANGED <<cell_t, not_cell>>

\* optional<ref> try_borrow(self const^)
try_borrow ==
  /\ ~cell_panicked
  /\ LET b == cell_borrow
         ret == try_borrow_ret(b) IN
       IF ret = "some"
         THEN CellCall("try_borrow", ret, "ref", ref_ctor(b))
         ELSE CellCall("try_borrow", ret, "none", b)

\* optional<ref_mut> try_borrow_mut(self const^)
try_borrow_mut ==
  /\ ~cell_panicked
  /\ LET b == cell_borrow
         ret == try_borrow_mut_ret(b) IN
       IF ret = "some"
         THEN CellCall("try_borrow_mut", ret, "ref_mut", ref_mut_ctor(b))
         ELSE CellCall("try_borrow_mut", ret, "none", b)

\* ref borrow(self const^): try_borrow, then the guard or panic
borrow ==
  /\ ~cell_panicked
  /\ LET b == cell_borrow
         ret == match_or_panic(try_borrow_ret(b)) IN
       IF ret = "some"
         THEN CellCall("borrow", ret, "ref", ref_ctor(b))
         ELSE CellCall("borrow", ret, "none", b)

\* ref_mut borrow_mut(self const^): try_borrow_mut, then the guard or panic
borrow_mut ==
  /\ ~cell_panicked
  /\ LET b == cell_borrow
         ret == match_or_panic(try_borrow_mut_ret(b)) IN
       IF ret = "some"
         THEN CellCall("borrow_mut", ret, "ref_mut", ref_mut_ctor(b))
         ELSE CellCall("borrow_mut", ret, "none", b)

\* ref(ref const^ rhs): ref(rhs.value_, rhs.borrow_)
ref_copy(rhs) ==
  /\ ~cell_panicked
  /\ cell_guard[rhs] = "ref"
  /\ CellCall("ref_copy", "-", "ref", ref_ctor(cell_borrow))

\* The state change of a guard's destructor.
CellDrop(op, g, b) ==
  /\ cell_borrow' = b
  /\ cell_guard' = [cell_guard EXCEPT ![g] = "none"]
  /\ cell_last' = [op |-> op, ret |-> "-",
                   pre |-> CellSnap(cell_borrow, cell_t, cell_guard),
                   post |-> CellSnap(b, cell_t, cell_guard')]
  /\ UNCHANGED <<cell_t, cell_panicked, not_cell>>

\* ~ref()
ref_drop(g) ==
  /\ ~cell_panicked
  /\ cell_guard[g] = "ref"
  /\ CellDrop("~ref", g, ref_dtor(cell_borrow))

\* ~ref_mut()
ref_mut_drop(g) ==
  /\ ~cell_panicked
  /\ cell_guard[g] = "ref_mut"
  /\ CellDrop("~ref_mut", g, ref_mut_dtor(cell_borrow))

\* T^ ref_mut::operator*(self^), then an assignment through the borrow
ref_mut_write(g, v) ==
  /\ ~cell_panicked
  /\ cell_guard[g] = "ref_mut"
  /\ cell_t' = v
  /\ cell_last' = [op |-> "write", ret |-> "-",
                   pre |-> CellSnap(cell_borrow, cell_t, cell_guard),
                   post |-> CellSnap(cell_borrow, v, cell_guard)]
  /\ UNCHANGED <<cell_borrow, cell_guard, cell_panicked, not_cell>>

CellNext ==
  \/ try_borrow
  \/ try_borrow_mut
  \/ borrow
  \/ borrow_mut
  \/ \E g \in CellGuards : ref_copy(g)
  \/ \E g \in CellGuards : ref_drop(g)
  \/ \E g \in CellGuards : ref_mut_drop(g)
  \/ \E g \in CellGuards, v \in CellValues : ref_mut_write(g, v)

(***************************************************************************)
(* mutex<T>                                                                *)
(***************************************************************************)
MtxThreads == 1..NumMtxThreads

MtxValues == 0..MaxMtxValue

\* mutex(T data): data_(rel data), mtx_(a fresh, unlocked std::mutex)
MtxInit ==
  /\ mtx_data \in MtxValues
  /\ mtx_owner = 0
  /\ mtx_pc = [t \in MtxThreads |-> "idle"]
  /\ mtx_guards = [t \in MtxThreads |-> 0]
  /\ mtx_borrow = [t \in MtxThreads |-> FALSE]
  /\ mtx_seen = [t \in MtxThreads |-> -1]
  /\ mtx_unlocks = 0

\* (mutant) lock() hands out a guard without waiting for the std::mutex
lock_may_return_at_once(owner) == TRUE

\* self->mtx_->get()->lock(): std::mutex::lock() returns to its caller only
\* when the std::mutex is free, and takes it in the same step.
lock_may_return(owner) == owner = 0

\* lock_guard lock(self const^): the call into std::mutex::lock()
MtxLockCall(t) ==
  /\ mtx_pc[t] = "idle"
  /\ ~mtx_borrow[t]
  /\ mtx_pc' = [mtx_pc EXCEPT ![t] = "locking"]
  /\ UNCHANGED <<mtx_data, mtx_owner, mtx_guards, mtx_borrow, mtx_seen,
                 mtx_unlocks, not_mtx>>

\* lock_guard lock(self const^): std::mutex::lock() returns,
\* return lock_guard(self)
MtxLockReturn(t) ==
  /\ mtx_pc[t] = "locking"
  /\ lock_may_return(mtx_owner)
  /\ mtx_owner' = t
  /\ mtx_guards' = [mtx_guards EXCEPT ![t] = @ + 1]
  /\ mtx_pc' = [mtx_pc EXCEPT ![t] = "idle"]
  /\ UNCHANGED <<mtx_data, mtx_borrow, mtx_seen, mtx_unlocks, not_mtx>>

\* lock() by the thread that already holds the std::mutex is undefined for
\* std::mutex: the call blocks for ever (no step), or the library detects the
\* deadlock and lock() leaves by std::system_error without making a guard.
MtxLockThrow(t) ==
  /\ mtx_pc[t] = "locking"
  /\ mtx_owner = t
  /\ mtx_pc' = [mtx_pc EXCEPT ![t] = "idle"]
  /\ UNCHANGED <<mtx_data, mtx_owner, mtx_guards, mtx_borrow, mtx_seen,
                 mtx_unlocks, not_mtx>>

\* T^ lock_guard::borrow(self^) / operator*
MtxBorrow(t) ==
  /\ mtx_pc[t] = "idle"
  /\ mtx_guards[t] > 0
  /\ ~mtx_borrow[t]
  /\ mtx_borrow' = [mtx_borrow EXCEPT ![t] = TRUE]
  /\ UNCHANGED <<mtx_data, mtx_owner, mtx_pc, mtx_guards, mtx_seen,
                 mtx_unlocks, not_mtx>>

\* a read through the T^ (or T const^) borrowed from the guard
MtxRead(t) ==
  /\ mtx_pc[t] = "idle"
  /\ mtx_borrow[t]
  /\ mtx_seen' = [mtx_seen EXCEPT ![t] = mtx_data]
  /\ UNCHANGED <<mtx_data, mtx_owner, mtx_pc, mtx_guards, mtx_borrow,
                 mtx_unlocks, not_mtx>>

\* an assignment through the T^ borrowed from the guard
MtxWrite(t, v) ==
  /\ mtx_pc[t] = "idle"
  /\ mtx_borrow[t]
  /\ mtx_data' = v
  /\ UNCHANGED <<mtx_owner, mtx_pc, mtx_guards, mtx_borrow, mtx_seen,
                 mtx_unlocks, not_mtx>>

\* the borrow obtained from the guard goes out of scope
MtxBorrowEnd(t) ==
  /\ mtx_pc[t] = "idle"
  /\ mtx_borrow[t]
  /\ mtx_borrow' = [mtx_borrow EXCEPT ![t] = FALSE]
  /\ UNCHANGED <<mtx_data, mtx_owner, mtx_pc, mtx_guards, mtx_seen,
                 mtx_unlocks, not_mtx>>

\* ~lock_guard(): m_->mtx_->get()->unlock()
MtxGuardDrop(t) ==
  /\ mtx_pc[t] = "idle"
  /\ mtx_guards[t] > 0
  /\ ~mtx_borrow[t]
  /\ mtx_owner' = 0
  /\ mtx_unlocks' = IF mtx_owner = t THEN mtx_unlocks ELSE mtx_unlocks + 1
  /\ mtx_guards' = [mtx_guards EXCEPT ![t] = @ - 1]
  /\ UNCHANGED <<mtx_data, mtx_pc, mtx_borrow, mtx_seen, not_mtx>>

\* A thread that uses the mutex freely, outside any of the programs below.
MtxNext ==
  \/ \E t \in MtxThreads : MtxLockCall(t) /\ UNCHANGED add_vars
  \/ \E t \in MtxThreads : MtxLockReturn(t) /\ UNCHANGED add_vars
  \/ \E t \in MtxThreads : MtxLockThrow(t) /\ UNCHANGED add_vars
  \/ \E t \in MtxThreads : MtxBorrow(t) /\ UNCHANGED add_vars
  \/ \E t \in MtxThreads : MtxRead(t) /\ UNCHANGED add_vars
  \/ \E t \in MtxThreads, v \in MtxValues : MtxWrite(t, v) /\ UNCHANGED add_vars
  \/ \E t \in MtxThreads : MtxBorrowEnd(t) /\ UNCHANGED add_vars
  \/ \E t \in MtxThreads : MtxGuardDrop(t) /\ UNCHANGED add_vars

(***************************************************************************)
(* mutex_test: the threads run adder on one arc<mutex<int>>, main joins    *)
(* them and reads the payload under the lock.                              *)
(***************************************************************************)
\* the main thread of mutex_test; the other threads run adder
AdderMain == NumMtxThreads

Adders == MtxThreads \ {AdderMain}

\* std2::arc<std2::mutex<int>> sp{std2::mutex(v)}; threads.push_back(...)
AdderInit ==
  /\ add_pc = [t \in MtxThreads |-> IF t = AdderMain THEN "join" ELSE "loop"]
  /\ add_i = [t \in MtxThreads |-> 0]
  /\ add_init = mtx_data
  /\ add_val = -1

\* the next position of a thread in the body  lock; borrow; read; write;
\* scope exit  (main's expression  *sp->lock()^.borrow()  has no write)
AdderGoto(t, from, to) ==
  /\ add_pc[t] = from
  /\ add_pc' = [add_pc EXCEPT ![t] = to]

\* for (int i = 0; i < 10'000; ++i) {  auto guard = m->lock();
AdderLoop(t) ==
  /\ t \in Adders
  /\ add_i[t] < AdderIters
  /\ AdderGoto(t, "loop", "lock")
  /\ MtxLockCall(t)
  /\ UNCHANGED <<add_i, add_init, add_val>>

\* the loop test fails:  drp m;  and adder returns
AdderReturn(t) ==
  /\ t \in Adders
  /\ add_i[t] >= AdderIters
  /\ AdderGoto(t, "loop", "done")
  /\ UNCHANGED <<add_i, add_init, add_val, mtx_vars, not_mtx>>

\* for (std2::thread t : rel threads) t rel.join();  then  sp->lock()
AdderJoin(t) ==
  /\ t = AdderMain
  /\ \A a \in Adders : add_pc[a] = "done"
  /\ AdderGoto(t, "join", "lock")
  /\ MtxLockCall(t)
  /\ UNCHANGED <<add_i, add_init, add_val>>

\* m->lock() returns the guard
AdderLocked(t) ==
  /\ AdderGoto(t, "lock", "borrow")
  /\ MtxLockReturn(t)
  /\ UNCHANGED <<add_i, add_init, add_val>>

\* int^ x = mut guard.borrow();
AdderBorrow(t) ==
  /\ AdderGoto(t, "borrow", "read")
  /\ MtxBorrow(t)
  /\ UNCHANGED <<add_i, add_init, add_val>>

\* *x += 1: the load of *x   (main: int const val = *...borrow())
AdderRead(t) ==
  /\ AdderGoto(t, "read", IF t = AdderMain THEN "endborrow" ELSE "write")
  /\ MtxRead(t)
  /\ add_val' = IF t = AdderMain THEN mtx_data ELSE add_val
  /\ UNCHANGED <<add_i, add_init>>

\* *x += 1: the store of the loaded value plus one
AdderWrite(t) ==
  /\ AdderGoto(t, "write", "endborrow")
  /\ MtxWrite(t, mtx_seen[t] + 1)
  /\ UNCHANGED <<add_i, add_init, add_val>>

\* end of the loop body: x goes out of scope ...
AdderBorrowEnd(t) ==
  /\ AdderGoto(t, "endborrow", "drop")
  /\ MtxBorrowEnd(t)
  /\ UNCHANGED <<add_i, add_init, add_val>>

\* ... then guard is destroyed, and ++i
AdderGuardDrop(t) ==
  /\ AdderGoto(t, "drop", IF t = AdderMain THEN "done" ELSE "loop")
  /\ MtxGuardDrop(t)
  /\ add_i' = [add_i EXCEPT ![t] = IF t = AdderMain THEN @ ELSE @ + 1]
  /\ UNCHANGED <<add_init, add_val>>

AdderRun(t) ==
  \/ AdderLoop(t)
  \/ AdderReturn(t)
  \/ AdderJoin(t)
  \/ AdderLocked(t)
  \/ AdderBorrow(t)
  \/ AdderRead(t)
  \/ AdderWrite(t)
  \/ AdderBorrowEnd(t)
  \/ AdderGuardDrop(t)

AdderNext == \E t \in MtxThreads : AdderRun(t)

(***************************************************************************)
(* shared_mutex<T>                                                         *)
(***************************************************************************)
SmtxThreads == 1..NumSmtxThreads

SmtxValues == 0..MaxSmtxValue

\* shared_mutex(T data): data_(rel data), mtx_(a fresh std::shared_mutex)
SmtxInit ==
  /\ smtx_data = 0
  /\ smtx_writer = 0
  /\ smtx_readers = 0
  /\ smtx_pc = [t \in SmtxThreads |-> "idle"]
  /\ smtx_lg = [t \in SmtxThreads |-> 0]
  /\ smtx_sg = [t \in SmtxThreads |-> 0]
  /\ smtx_err = [t \in SmtxThreads |-> FALSE]

\* (mutant) lock_shared() hands out a guard while a writer holds the lock
lock_shared_may_return_at_once(writer) == TRUE

\* std::shared_mutex::lock_shared() returns only while no thread holds the
\* lock exclusively (whether a writer is waiting is not looked at: the
\* standard leaves the preference open, glibc's default prefers readers)
lock_shared_may_return(writer) == writer = 0

\* (mutant) lock() of the shared_mutex does not wait for the readers
lock_excl_may_return_readers(writer, readers) == writer = 0

\* std::shared_mutex::lock() returns only while no thread holds the lock in
\* either mode
lock_excl_may_return(writer, readers) == writer = 0 /\ readers = 0

\* std::shared_mutex::unlock() on the lock state l = [writer, readers]
std_unlock(l) == [l EXCEPT !.writer = 0]

\* std::shared_mutex::unlock_shared()
std_unlock_shared(l) == [l EXCEPT !.readers = @ - 1]

\* ~lock_guard(): m_->mtx_->get()&->unlock()
lock_guard_dtor(l) == std_unlock(l)

\* (mutant) the shared guard calls unlock(), the mistake the comment in
\* ~shared_lock_guard recalls
shared_lock_guard_dtor_unlock(l) == std_unlock(l)

\* ~shared_lock_guard(): m_->mtx_->get()&->unlock_shared()
shared_lock_guard_dtor(l) == std_unlock_shared(l)

\* (mutant) the shared guard hands out a mutable borrow too
has_mut_borrow_shared(lg, sg) == lg + sg > 0

\* T^ borrow(self^) exists for lock_guard only; shared_lock_guard has
\* T const^ borrow(self const^) alone
has_mut_borrow(lg, sg) == lg > 0

\* lock(self const^) / lock_shared(self const^): the call into the
\* std::shared_mutex (kind is "lock" or "lock_shared")
SmtxCall(t, kind) ==
  /\ smtx_pc[t] = "idle"
  /\ kind = "lock_shared" => smtx_sg[t] < MaxSharedGuards
  /\ smtx_pc' = [smtx_pc EXCEPT ![t] = kind]
  /\ smtx_err' = [smtx_err EXCEPT ![t] = FALSE]
  /\ UNCHANGED <<smtx_data, smtx_writer, smtx_readers, smtx_lg, smtx_sg,
                 not_smtx>>

\* lock: std::shared_mutex::lock() returns, return lock_guard(self)
SmtxLockReturn(t) ==
  /\ smtx_pc[t] = "lock"
  /\ lock_excl_may_return(smtx_writer, smtx_readers)
  /\ smtx_writer' = t
  /\ smtx_lg' = [smtx_lg EXCEPT ![t] = @ + 1]
  /\ smtx_pc' = [smtx_pc EXCEPT ![t] = "idle"]
  /\ UNCHANGED <<smtx_data, smtx_readers, smtx_sg, smtx_err, not_smtx>>

\* lock_shared: std::shared_mutex::lock_shared() returns,
\* return shared_lock_guard(self).  (A thread that already holds the lock
\* shared gets it again where the implementation counts readers.)
SmtxLockSharedReturn(t) ==
  /\ smtx_pc[t] = "lock_shared"
  /\ lock_shared_may_return(smtx_writer)
  /\ smtx_readers' = smtx_readers + 1
  /\ smtx_sg' = [smtx_sg EXCEPT ![t] = @ + 1]
  /\ smtx_pc' = [smtx_pc EXCEPT ![t] = "idle"]
  /\ UNCHANGED <<smtx_data, smtx_writer, smtx_lg, smtx_err, not_smtx>>

\* lock() or lock_shared() by the thread that holds the lock exclusively is
\* undefined for std::shared_mutex: the call blocks for ever (no step), or the
\* implementation detects the deadlock and the call leaves by
\* std::system_error (resource_deadlock_would_occur) without making a guard.
SmtxThrow(t) ==
  /\ smtx_pc[t] \in {"lock", "lock_shared"}
  /\ smtx_writer = t
  /\ smtx_pc' = [smtx_pc EXCEPT ![t] = "idle"]
  /\ smtx_err' = [smtx_err EXCEPT ![t] = TRUE]
  /\ UNCHANGED <<smtx_data, smtx_writer, smtx_readers, smtx_lg, smtx_sg,
                 not_smtx>>

\* T const^ borrow(self const^) of either guard, and a read through it
SmtxRead(t) ==
  /\ smtx_pc[t] = "idle"
  /\ smtx_lg[t] + smtx_sg[t] > 0
  /\ UNCHANGED <<smtx_vars, not_smtx>>

\* T^ lock_guard::borrow(self^), and an assignment through it
SmtxWrite(t, v) ==
  /\ smtx_pc[t] = "idle"
  /\ has_mut_borrow(smtx_lg[t], smtx_sg[t])
  /\ smtx_data' = v
  /\ UNCHANGED <<smtx_writer, smtx_readers, smtx_pc, smtx_lg, smtx_sg,
                 smtx_err, not_smtx>>

\* ~lock_guard(): m_->mtx_->get()->unlock()
SmtxGuardDrop(t) ==
  /\ smtx_pc[t] = "idle"
  /\ smtx_lg[t] > 0
  /\ LET l == lock_guard_dtor([writer |-> smtx_writer,
                               readers |-> smtx_readers]) IN
       smtx_writer' = l.writer /\ smtx_readers' = l.readers
  /\ smtx_lg' = [smtx_lg EXCEPT ![t] = @ - 1]
  /\ UNCHANGED <<smtx_data, smtx_pc, smtx_sg, smtx_err, not_smtx>>

\* ~shared_lock_guard(): m_->mtx_->get()->unlock_shared()
SmtxSharedGuardDrop(t) ==
  /\ smtx_pc[t] = "idle"
  /\ smtx_sg[t] > 0
  /\ LET l == shared_lock_guard_dtor([writer |-> smtx_writer,
                                      readers |-> smtx_readers]) IN
       smtx_writer' = l.writer /\ smtx_readers' = l.readers
  /\ smtx_sg' = [smtx_sg EXCEPT ![t] = @ - 1]
  /\ UNCHANGED <<smtx_data, smtx_pc, smtx_lg, smtx_err, not_smtx>>

\* A thread that uses the shared_mutex freely.
SmtxNext ==
  \/ \E t \in SmtxThreads, k \in {"lock", "lock_shared"} :
       SmtxCall(t, k) /\ UNCHANGED rw_vars
  \/ \E t \in SmtxThreads : SmtxLockReturn(t) /\ UNCHANGED rw_vars
  \/ \E t \in SmtxThreads : SmtxLockSharedReturn(t) /\ UNCHANGED rw_vars
  \/ \E t \in SmtxThreads : SmtxThrow(t) /\ UNCHANGED rw_vars
  \/ \E t \in SmtxThreads : SmtxRead(t) /\ UNCHANGED rw_vars
  \/ \E t \in SmtxThreads, v \in SmtxValues :
       SmtxWrite(t, v) /\ UNCHANGED rw_vars
  \/ \E t \in SmtxThreads : SmtxGuardDrop(t) /\ UNCHANGED rw_vars
  \/ \E t \in SmtxThreads : SmtxSharedGuardDrop(t) /\ UNCHANGED rw_vars

(***************************************************************************)
(* shared_mutex_test: writer threads increment the payload under lock(),   *)
(* reader threads poll it under lock_shared() until it reaches the total.  *)
(***************************************************************************)
RwWriters == 1..NumRwWriters

RwReaders == SmtxThreads \ RwWriters

\* static int const value = num_writer_threads * num_iters;
RwValue == NumRwWriters * RwIters

\* sp{mutex_type(std2::box(0))}, the threads started; int v = 0;
RwInit ==
  /\ rw_pc = [t \in SmtxThreads |-> "loop"]
  /\ rw_i = [t \in SmtxThreads |-> 0]
  /\ rw_v = [t \in SmtxThreads |-> 0]
  /\ rw_done = 0
  /\ rw_obs = [v |-> 0, n |-> 0, mid |-> FALSE]

RwGoto(t, from, to) ==
  /\ rw_pc[t] = from
  /\ rw_pc' = [rw_pc EXCEPT ![t] = to]

\* auto writer = [](std2::arc<mutex_type> sp) safe { ... }
RwWriter(t) ==
  \* for (int i = 0; i < num_iters; ++i) {  auto guard = sp->lock();
  \/ /\ rw_i[t] < RwIters
     /\ RwGoto(t, "loop", "lock")
     /\ SmtxCall(t, "lock")
     /\ UNCHANGED <<rw_i, rw_v, rw_done, rw_obs>>
  \* the loop test fails:  drp sp;  and the writer returns
  \/ /\ rw_i[t] >= RwIters
     /\ RwGoto(t, "loop", "done")
     /\ UNCHANGED <<rw_i, rw_v, rw_done, rw_obs, smtx_vars, not_smtx>>
  \* sp->lock() returns the guard;  value_type^ v = mut guard.borrow();
  \/ /\ RwGoto(t, "lock", "read")
     /\ SmtxLockReturn(t)
     /\ UNCHANGED <<rw_i, rw_v, rw_done, rw_obs>>
  \* mut *v.borrow() += 1: the load
  \/ /\ RwGoto(t, "read", "write")
     /\ SmtxRead(t)
     /\ rw_v' = [rw_v EXCEPT ![t] = smtx_data]
     /\ UNCHANGED <<rw_i, rw_done, rw_obs>>
  \* mut *v.borrow() += 1: the store
  \/ /\ RwGoto(t, "write", "drop")
     /\ SmtxWrite(t, rw_v[t] + 1)
     /\ rw_done' = rw_done + 1
     /\ rw_v' = [rw_v EXCEPT ![t] = 0]
     /\ UNCHANGED <<rw_i, rw_obs>>
  \* end of the loop body: guard is destroyed, ++i
  \/ /\ RwGoto(t, "drop", "loop")
     /\ SmtxGuardDrop(t)
     /\ rw_i' = [rw_i EXCEPT ![t] = @ + 1]
     /\ UNCHANGED <<rw_v, rw_done, rw_obs>>

\* auto reader = [](std2::arc<mutex_type> sp) safe { ... }
RwReader(t) ==
  \* do {  auto guard = sp->lock_shared();
  \/ /\ RwGoto(t, "loop", "lock")
     /\ SmtxCall(t, "lock_shared")
     /\ UNCHANGED <<rw_i, rw_v, rw_done, rw_obs>>
  \* sp->lock_shared() returns the guard;  value_type const^ v2 = *guard;
  \/ /\ RwGoto(t, "lock", "read")
     /\ SmtxLockSharedReturn(t)
     /\ UNCHANGED <<rw_i, rw_v, rw_done, rw_obs>>
  \* v = **v2;
  \/ /\ RwGoto(t, "read", "drop")
     /\ SmtxRead(t)
     /\ rw_v' = [rw_v EXCEPT ![t] = smtx_data]
     /\ rw_obs' = [v |-> smtx_data, n |-> rw_done,
                   mid |-> \E w \in RwWriters : smtx_lg[w] > 0]
     /\ UNCHANGED <<rw_i, rw_done>>
  \* guard is destroyed;  } while(v < value);  drp sp;
  \* (the next round assigns v before anything reads it: it is kept as 0)
  \/ /\ RwGoto(t, "drop", IF rw_v[t] < RwValue THEN "loop" ELSE "done")
     /\ SmtxSharedGuardDrop(t)
     /\ rw_v' = [rw_v EXCEPT ![t] = IF rw_v[t] < RwValue THEN 0 ELSE @]
     /\ UNCHANGED <<rw_i, rw_done, rw_obs>>

RwNext ==
  \/ \E t \in RwWriters : RwWriter(t)
  \/ \E t \in RwReaders : RwReader(t)

(***************************************************************************)
(* box<T>                                                                  *)
(***************************************************************************)
not_box ==
  <<arc_vars, rc_vars, cell_vars, mtx_vars, add_vars, smtx_vars, rw_vars,
    atom_vars, opt_vars, exp_vars, cl_vars, th_vars, af_vars, cap_vars,
    cnt_vars, rcc_vars, bw_vars, lg_vars, tc_vars>>

BoxObjs == 1..MaxBoxObjs

BoxValues == 0..MaxBoxValue

\* no box has been constructed
BoxInit ==
  /\ box_impl = "none"
  /\ box_heap = "none"
  /\ box_slot = "uninit"
  /\ box_val = 0
  /\ box_obj = [o \in BoxObjs |-> "unborn"]
  /\ box_log = <<>>
  /\ box_given = 0
  /\ box_read = -1
  /\ box_leaked = FALSE
  /\ box_inner = -1

\* (mutant) the constructor leaves a default T in the allocation
rel_write_default(t) == 0

\* __rel_write(p_, rel t) / new(std::nothrow) T(rel t): the T put into the
\* allocation
rel_write(t) == t

\* (mutant) the destructor also runs for an object that was relocated from
box_is_dropped_always(state) == state \in {"owner", "moved"}

\* scope exit of a box object runs ~box only if the object is initialized:
\* not after it was relocated from (rel) or consumed by a self parameter
box_is_dropped(state) == state = "owner"

\* ~box.  include/std2/box.h:  T t = __rel_read(p_); ::operator delete(p_);
\* and t is destroyed at the closing brace.  single-header:  delete p_;
box_dtor(impl) ==
  IF impl = "include" THEN <<"relocate", "free", "destroy">>
  ELSE <<"destroy", "free">>

\* (mutant) forget lets the destructor of its argument run
forget_drops(impl) == box_dtor(impl)

\* forget(rel self): manually_drop<T>(rel t), whose destructor is trivial
forget(impl) == <<>>

\* (mutant) into_inner destroys the payload in place before freeing
into_inner_destroys(impl) == <<"destroy", "free">>

\* into_inner: T t = __rel_read(self.p_); ::operator delete(self.p_);
\* return rel t;
into_inner(impl) == <<"relocate", "free">>

\* the allocation and the T in it after the events ev
BoxAfter(ev) ==
  /\ box_log' = box_log \o ev
  /\ box_heap' = IF \E i \in DOMAIN ev : ev[i] = "free" THEN "freed"
                 ELSE box_heap
  /\ box_slot' = IF \E i \in DOMAIN ev : ev[i] = "relocate" THEN "moved"
                 ELSE IF \E i \in DOMAIN ev : ev[i] = "destroy"
                        THEN "destroyed"
                 ELSE box_slot

\* explicit box(T t)
BoxNew(impl, t) ==
  /\ box_impl = "none"
  /\ box_impl' = impl
  /\ box_heap' = "allocated"
  /\ box_slot' = "alive"
  /\ box_val' = rel_write(t)
  /\ box_given' = t
  /\ box_obj' = [box_obj EXCEPT ![1] = "owner"]
  /\ UNCHANGED <<box_log, box_read, box_leaked, box_inner, not_box>>

\* T^ borrow(self^) / operator* / operator->, and an assignment through it
BoxWrite(o, t) ==
  /\ box_obj[o] = "owner"
  /\ box_val' = t
  /\ box_given' = t
  /\ UNCHANGED <<box_impl, box_heap, box_slot, box_obj, box_log, box_read,
                 box_leaked, box_inner, not_box>>

\* T const^ borrow(self const^) / operator* / operator->, and a read
BoxRead(o) ==
  /\ box_obj[o] = "owner"
  /\ box_read' = box_val
  /\ UNCHANGED <<box_impl, box_heap, box_slot, box_val, box_obj, box_log,
                 box_given, box_leaked, box_inner, not_box>>

\* auto q = rel p: the box object o is relocated into a new object
BoxRel(o, q) ==
  /\ box_obj[o] = "owner"
  /\ box_obj[q] = "unborn"
  /\ \A r \in BoxObjs : r < q => box_obj[r] # "unborn"
  /\ box_obj' = [box_obj EXCEPT ![o] = "moved", ![q] = "owner"]
  /\ UNCHANGED <<box_impl, box_heap, box_slot, box_val, box_log, box_given,
                 box_read, box_leaked, box_inner, not_box>>

\* the scope of box object o ends
BoxScopeExit(o) ==
  /\ box_obj[o] \in {"owner", "moved", "consumed"}
  /\ BoxAfter(IF box_is_dropped(box_obj[o]) THEN box_dtor(box_impl) ELSE <<>>)
  /\ box_obj' = [box_obj EXCEPT ![o] = "gone"]
  /\ UNCHANGED <<box_impl, box_val, box_given, box_read, box_leaked,
                 box_inner, not_box>>

\* T* leak(self): auto p = self.p_; forget(rel self); return p;
BoxLeak(o) ==
  /\ box_obj[o] = "owner"
  /\ BoxAfter(forget(box_impl))
  /\ box_obj' = [box_obj EXCEPT ![o] = "consumed"]
  /\ box_leaked' = TRUE
  /\ UNCHANGED <<box_impl, box_val, box_given, box_read, box_inner, not_box>>

\* T into_inner(self)
BoxIntoInner(o) ==
  /\ box_obj[o] = "owner"
  /\ BoxAfter(into_inner(box_impl))
  /\ box_obj' = [box_obj EXCEPT ![o] = "consumed"]
  /\ box_inner' = box_val
  /\ UNCHANGED <<box_impl, box_val, box_given, box_read, box_leaked, not_box>>

BoxNext ==
  \/ \E impl \in {"include", "single"}, t \in BoxValues : BoxNew(impl, t)
  \/ \E o \in BoxObjs, t \in BoxValues : BoxWrite(o, t)
  \/ \E o \in BoxObjs : BoxRead(o)
  \/ \E o, q \in BoxObjs : BoxRel(o, q)
  \/ \E o \in BoxObjs : BoxScopeExit(o)
  \/ \E o \in BoxObjs : BoxLeak(o)
  \/ \E o \in BoxObjs : BoxIntoInner(o)

(***************************************************************************)
(* optional<T>                                                             *)
(***************************************************************************)
not_opt ==
  <<arc_vars, rc_vars, cell_vars, mtx_vars, add_vars, smtx_vars, rw_vars,
    atom_vars, box_vars, exp_vars, cl_vars, th_vars, af_vars, cap_vars,
    cnt_vars, rcc_vars, bw_vars, lg_vars, tc_vars>>

\* choice optional { default none, some(T) }
Optionals ==
  {[tag |-> "none", t |-> 0]}
    \cup {[tag |-> "some", t |-> x] : x \in 0..MaxOptValue}

OptMsgs == 1..MaxOptMsg

\* the str unwrap hands to panic: "unwrapping invalid optional"
UnwrapMsg == 0

\* std2::optional<int> mx; holds the default alternative
OptInit ==
  /\ opt_mx = [tag |-> "none", t |-> 0]
  /\ opt_last = [fn |-> "none", self |-> opt_mx, msg |-> 0, ret |-> -1]
  /\ opt_panic = -1

\* T unwrap(self): the value returned and the message handed to panic (-1:
\* none)
optional_unwrap(self) ==
  IF self.tag = "some" THEN [ret |-> self.t, panic |-> -1]
  ELSE [ret |-> -1, panic |-> UnwrapMsg]

\* (mutant) expect panics with unwrap's message
optional_expect_as_unwrap(self, msg) == optional_unwrap(self)

\* T expect(self, str msg)
optional_expect(self, msg) ==
  IF self.tag = "some" THEN [ret |-> self.t, panic |-> -1]
  ELSE [ret |-> -1, panic |-> msg]

\* mx = .some(x);  mx = .none;
OptAssign(o) ==
  /\ opt_panic = -1
  /\ opt_mx' = o
  /\ UNCHANGED <<opt_last, opt_panic, not_opt>>

\* mx.unwrap(): panic prints its message and calls abort(), after which the
\* program takes no step
OptUnwrap ==
  /\ opt_panic = -1
  /\ opt_last' = [fn |-> "unwrap", self |-> opt_mx, msg |-> UnwrapMsg,
                  ret |-> optional_unwrap(opt_mx).ret]
  /\ opt_panic' = optional_unwrap(opt_mx).panic
  /\ UNCHANGED <<opt_mx, not_opt>>

\* mx.expect(msg)
OptExpect(msg) ==
  /\ opt_panic = -1
  /\ opt_last' = [fn |-> "expect", self |-> opt_mx, msg |-> msg,
                  ret |-> optional_expect(opt_mx, msg).ret]
  /\ opt_panic' = optional_expect(opt_mx, msg).panic
  /\ UNCHANGED <<opt_mx, not_opt>>

OptNext ==
  \/ \E o \in Optionals : OptAssign(o)
  \/ OptUnwrap
  \/ \E msg \in OptMsgs : OptExpect(msg)

(***************************************************************************)
(* optional<T>: ok_or, take, take_if; expected<T, E>                       *)
(***************************************************************************)
not_exp ==
  <<arc_vars, rc_vars, cell_vars, mtx_vars, add_vars, smtx_vars, rw_vars,
    atom_vars, box_vars, cl_vars, th_vars, af_vars, cap_vars, cnt_vars,
    rcc_vars, bw_vars, lg_vars, tc_vars>>

OptErrs == 1..MaxOptErr

OptNone == [tag |-> "none", t |-> 0]

\* the str expected::unwrap hands to panic:
\* "unwrapping an error-containing expected"
ExpectedUnwrapMsg == -2

\* a predicate handed to take_if gets a mutable borrow x of the payload: it
\* returns *x < lt, and writes wr to *x unless wr is -1
OptPreds == [lt : 0..(MaxOptValue + 1), wr : {-1} \cup (0..MaxOptValue)]

ExpInit ==
  /\ opt_mx2 = [tag |-> "unset", t |-> 0]
  /\ opt_res = [out |-> OptNone, calls |-> 0, dtors |-> 0]

\* (mutant) ok_or yields err for every optional
optional_ok_or_err(self, e) == [tag |-> "err", t |-> e]

\* expected<T, E> ok_or(self, E e)
optional_ok_or(self, e) ==
  IF self.tag = "some" THEN [tag |-> "ok", t |-> self.t]
  ELSE [tag |-> "err", t |-> e]

\* T expected::unwrap(self): the value returned and the message handed to
\* panic (-1: none)
expected_unwrap(self) ==
  IF self.tag = "ok" THEN [ret |-> self.t, panic |-> -1]
  ELSE [ret |-> -1, panic |-> ExpectedUnwrapMsg]

\* (mutant) replace copies dst out and leaves it as it was
replace_keeps(dst, src) == [result |-> dst, dst |-> dst, dtors |-> 0]

\* T replace(T^ dst, T src): T result = __rel_read(addr *dst);
\* __rel_write(addr *dst, rel src); return result;
replace(dst, src) == [result |-> dst, dst |-> src, dtors |-> 0]

\* optional<T> take(self^)
optional_take(self) == replace(self, OptNone)

\* what the call p(x) leaves in *x
pred_writes(p, x) == IF p.wr = -1 THEN x ELSE p.wr

\* (mutant) take_if takes whatever the predicate says
optional_take_if_always(self, p) ==
  IF self.tag = "some"
    THEN replace([self EXCEPT !.t = pred_writes(p, self.t)], OptNone)
           @@ [calls |-> 1]
  ELSE [result |-> OptNone, dst |-> self, dtors |-> 0, calls |-> 0]

\* optional<T> take_if(self^, P p)
optional_take_if(self, p) ==
  IF self.tag = "some"
    THEN IF self.t < p.lt
           THEN replace([self EXCEPT !.t = pred_writes(p, self.t)], OptNone)
                  @@ [calls |-> 1]
         ELSE [result |-> OptNone,
               dst |-> [self EXCEPT !.t = pred_writes(p, self.t)],
               dtors |-> 0, calls |-> 1]
  ELSE [result |-> OptNone, dst |-> self, dtors |-> 0, calls |-> 0]

\* mx2 = mx.ok_or(e);
OptOkOr(e) ==
  /\ opt_panic = -1
  /\ opt_mx2' = optional_ok_or(opt_mx, e)
  /\ UNCHANGED <<opt_vars, opt_res, not_exp>>

\* mx2.unwrap()
ExpUnwrap ==
  /\ opt_panic = -1
  /\ opt_mx2.tag # "unset"
  /\ opt_last' = [fn |-> "expected::unwrap", self |-> opt_mx2,
                  msg |-> ExpectedUnwrapMsg,
                  ret |-> expected_unwrap(opt_mx2).ret]
  /\ opt_panic' = expected_unwrap(opt_mx2).panic
  /\ UNCHANGED <<opt_mx, exp_vars, not_exp>>

\* auto m_p = mx.take();
OptTake ==
  /\ opt_panic = -1
  /\ opt_mx' = optional_take(opt_mx).dst
  /\ opt_res' = [out |-> optional_take(opt_mx).result, calls |-> 0,
                 dtors |-> optional_take(opt_mx).dtors]
  /\ UNCHANGED <<opt_last, opt_panic, opt_mx2, not_exp>>

\* auto m_p = mx.take_if(p);
OptTakeIf(p) ==
  /\ opt_panic = -1
  /\ opt_mx' = optional_take_if(opt_mx, p).dst
  /\ opt_res' = [out |-> optional_take_if(opt_mx, p).result,
                 calls |-> optional_take_if(opt_mx, p).calls,
                 dtors |-> optional_take_if(opt_mx, p).dtors]
  /\ UNCHANGED <<opt_last, opt_panic, opt_mx2, not_exp>>

ExpNext ==
  \/ \E o \in Optionals : OptAssign(o)
  \/ \E e \in OptErrs : OptOkOr(e)
  \/ ExpUnwrap
  \/ OptTake
  \/ \E p \in OptPreds : OptTakeIf(p)

(***************************************************************************)
(* cell<T>                                                                 *)
(***************************************************************************)
not_cl ==
  <<arc_vars, rc_vars, cell_vars, mtx_vars, add_vars, smtx_vars, rw_vars,
    atom_vars, box_vars, opt_vars, exp_vars, th_vars, af_vars, cap_vars,
    cnt_vars, rcc_vars, bw_vars, lg_vars, tc_vars>>

CopyValues == 0..MaxCopyValue

\* no cell has been constructed
PCellInit ==
  /\ cl_t = 0
  /\ cl_put = 0
  /\ cl_last = [fn |-> "none", arg |-> -1, ret |-> -1]

\* explicit cell(T t): t_(rel t)
PCellNew(t) ==
  /\ cl_last.fn = "none"
  /\ cl_t' = t
  /\ cl_put' = t
  /\ cl_last' = [fn |-> "cell", arg |-> t, ret |-> -1]
  /\ UNCHANGED not_cl

\* T get(self const^): return *self->t_.get();
cell_get(t_) == [t_ |-> t_, ret |-> t_]

\* (mutant) set leaves the stored value alone
cell_set_lost(t_, t) == [t_ |-> t_, ret |-> -1]

\* void set(self const^, T t): *self->t_.get() = rel t;
cell_set(t_, t) == [t_ |-> t, ret |-> -1]

\* (mutant) replace returns the value it stored
cell_replace_new(t_, t) == [t_ |-> t, ret |-> t]

\* T replace(self const^, T t): old = __rel_read(...); __rel_write(..., rel t);
\* return old;
cell_replace(t_, t) == [t_ |-> t, ret |-> t_]

\* x.get()
PCellGet ==
  /\ cl_last.fn # "none"
  /\ cl_t' = cell_get(cl_t).t_
  /\ cl_last' = [fn |-> "get", arg |-> -1, ret |-> cell_get(cl_t).ret]
  /\ UNCHANGED <<cl_put, not_cl>>

\* x.set(t)
PCellSet(t) ==
  /\ cl_last.fn # "none"
  /\ cl_t' = cell_set(cl_t, t).t_
  /\ cl_put' = t
  /\ cl_last' = [fn |-> "set", arg |-> t, ret |-> cell_set(cl_t, t).ret]
  /\ UNCHANGED not_cl

\* x.replace(t)
PCellReplace(t) ==
  /\ cl_last.fn # "none"
  /\ cl_t' = cell_replace(cl_t, t).t_
  /\ cl_put' = t
  /\ cl_last' = [fn |-> "replace", arg |-> t,
                 ret |-> cell_replace(cl_t, t).ret]
  /\ UNCHANGED not_cl

\* x.replace(x.get())
PCellReplaceGet ==
  /\ cl_last.fn # "none"
  /\ cl_t' = cell_replace(cell_get(cl_t).t_, cell_get(cl_t).ret).t_
  /\ cl_put' = cell_get(cl_t).ret
  /\ cl_last' =
       [fn |-> "replace(get)", arg |-> cell_get(cl_t).ret,
        ret |-> cell_replace(cell_get(cl_t).t_, cell_get(cl_t).ret).ret]
  /\ UNCHANGED not_cl

PCellNext ==
  \/ \E t \in CopyValues : PCellNew(t)
  \/ PCellGet
  \/ \E t \in CopyValues : PCellSet(t)
  \/ \E t \in CopyValues : PCellReplace(t)
  \/ PCellReplaceGet

(***************************************************************************)
(* thread                                                                  *)
(***************************************************************************)
not_th ==
  <<arc_vars, rc_vars, cell_vars, mtx_vars, add_vars, smtx_vars, rw_vars,
    atom_vars, box_vars, opt_vars, exp_vars, cl_vars, af_vars, cap_vars,
    cnt_vars, rcc_vars, bw_vars, lg_vars, tc_vars>>

ThHandles == 1..NumThHandles

ThInit ==
  /\ th_run = [h \in ThHandles |-> "unborn"]
  /\ th_handle = [h \in ThHandles |-> "none"]
  /\ th_ops = [h \in ThHandles |-> [joins |-> 0, detaches |-> 0]]

\* (mutant) std::thread::join returns without waiting
join_may_return_at_once(run) == TRUE

\* std::thread::join returns once the thread has finished
join_may_return(run) == run = "done"

\* scope exit runs ~thread only on an initialized handle: not on one that
\* t rel.join() relocated from (join forgets its self)
thread_is_dropped(handle) == handle = "live"

\* thread(F f, Args... args): t_ = std::thread(&call<F, Args...>, p.get())
ThSpawn(h) ==
  /\ th_handle[h] = "none"
  /\ \A g \in ThHandles : g < h => th_handle[g] # "none"
  /\ th_handle' = [th_handle EXCEPT ![h] = "live"]
  /\ th_run' = [th_run EXCEPT ![h] = "running"]
  /\ UNCHANGED <<th_ops, not_th>>

\* call: the callable runs to its end on the spawned thread
ThCall(h) ==
  /\ th_run[h] = "running"
  /\ th_run' = [th_run EXCEPT ![h] = "done"]
  /\ UNCHANGED <<th_handle, th_ops, not_th>>

\* t rel.join(): the handle is relocated into join, which calls t_.join()
ThJoin(h) ==
  /\ th_handle[h] = "live"
  /\ th_handle' = [th_handle EXCEPT ![h] = "joining"]
  /\ UNCHANGED <<th_run, th_ops, not_th>>

\* t_.join() returns; forget(rel self); join returns
ThJoinReturn(h) ==
  /\ th_handle[h] = "joining"
  /\ join_may_return(th_run[h])
  /\ th_handle' = [th_handle EXCEPT ![h] = "joined"]
  /\ th_ops' = [th_ops EXCEPT ![h].joins = @ + 1]
  /\ UNCHANGED <<th_run, not_th>>

\* the scope of the handle ends: ~thread detaches
ThScopeExit(h) ==
  /\ th_handle[h] \in {"live", "joined"}
  /\ th_handle' = [th_handle EXCEPT ![h] =
                     IF thread_is_dropped(@) THEN "detached" ELSE "gone"]
  /\ th_ops' = [th_ops EXCEPT ![h].detaches =
                  IF thread_is_dropped(th_handle[h]) THEN @ + 1 ELSE @]
  /\ UNCHANGED <<th_run, not_th>>

ThNext ==
  \/ \E h \in ThHandles : ThSpawn(h)
  \/ \E h \in ThHandles : ThCall(h)
  \/ \E h \in ThHandles : ThJoin(h)
  \/ \E h \in ThHandles : ThJoinReturn(h)
  \/ \E h \in ThHandles : ThScopeExit(h)

(***************************************************************************)
(* box / arc / rc: the allocation in the constructor fails                 *)
(***************************************************************************)
not_af ==
  <<arc_vars, rc_vars, cell_vars, mtx_vars, add_vars, smtx_vars, rw_vars,
    atom_vars, box_vars, opt_vars, exp_vars, cl_vars, th_vars, cap_vars,
    cnt_vars, rcc_vars, bw_vars, lg_vars, tc_vars>>

\* box and arc exist in include/std2 and in the single header, rc only in
\* the single header
AfObjs ==
  {[kind |-> k, impl |-> i] : k \in {"box", "arc"}, i \in {"include", "single"}}
    \cup {[kind |-> "rc", impl |-> "single"]}

AfInit ==
  /\ af_obj = [kind |-> "none", impl |-> "none"]
  /\ af_p = "none"
  /\ af_handles = 0
  /\ af_nullops = 0
  /\ af_status = "running"

\* the allocation in the constructor.  include/std2: ::operator new(size)
\* returns the memory or throws std::bad_alloc.  single header:
\* new(std::nothrow) X(rel t) returns the object or a null pointer, and the
\* constructor stores it in p_ unchecked.
alloc(impl, ok) ==
  IF ok THEN [p |-> "valid", status |-> "running", handles |-> 1]
  ELSE IF impl = "include"
         THEN [p |-> "none", status |-> "thrown", handles |-> 0]
  ELSE [p |-> "null", status |-> "running", handles |-> 1]

\* explicit box(T t) / arc(T t) / rc(T t)
AfNew(o, ok) ==
  /\ af_status = "running"
  /\ af_obj.kind = "none"
  /\ af_obj' = o
  /\ af_p' = alloc(o.impl, ok).p
  /\ af_status' = alloc(o.impl, ok).status
  /\ af_handles' = alloc(o.impl, ok).handles
  /\ UNCHANGED <<af_nullops, not_af>>

\* the std::bad_alloc thrown by operator new is not caught: std::terminate
AfUncaught ==
  /\ af_status = "thrown"
  /\ af_status' = "terminated"
  /\ UNCHANGED <<af_obj, af_p, af_handles, af_nullops, not_af>>

\* an operation that reads or writes through p_: undefined behaviour when p_
\* is null; the build either faults there or carries on
AfThrough(after) ==
  /\ af_nullops' =
       IF af_p = "null" /\ af_nullops < MaxAfNullOps THEN af_nullops + 1
       ELSE af_nullops
  /\ af_status' = IF af_p = "null" THEN after ELSE "running"

\* operator* / operator-> / borrow
AfDeref(after) ==
  /\ af_status = "running"
  /\ af_handles > 0
  /\ AfThrough(after)
  /\ UNCHANGED <<af_obj, af_p, af_handles, not_af>>

\* arc(arc const^) / rc(rc const^): ++p_->strong_
AfCopy(after) ==
  /\ af_status = "running"
  /\ af_obj.kind \in {"arc", "rc"}
  /\ af_handles \in 1..(MaxAfHandles - 1)
  /\ AfThrough(after)
  /\ af_handles' = af_handles + 1
  /\ UNCHANGED <<af_obj, af_p, not_af>>

\* ~arc / ~rc: --p_->strong_ ...;  single-header ~box: delete p_, which does
\* nothing for a null pointer
AfDrop(after) ==
  /\ af_status = "running"
  /\ af_handles > 0
  /\ IF af_obj.kind = "box"
       THEN UNCHANGED <<af_nullops, af_status>>
     ELSE AfThrough(after)
  /\ af_handles' = af_handles - 1
  /\ UNCHANGED <<af_obj, af_p, not_af>>

AfNext ==
  \/ \E o \in AfObjs, ok \in BOOLEAN : AfNew(o, ok)
  \/ AfUncaught
  \/ \E after \in {"running", "crashed"} : AfDeref(after)
  \/ \E after \in {"running", "crashed"} : AfCopy(after)
  \/ \E after \in {"running", "crashed"} : AfDrop(after)

(***************************************************************************)
(* send / sync                                                             *)
(***************************************************************************)
not_cap ==
  <<arc_vars, rc_vars, cell_vars, mtx_vars, add_vars, smtx_vars, rw_vars,
    atom_vars, box_vars, opt_vars, exp_vars, cl_vars, th_vars, af_vars,
    cnt_vars, rcc_vars, bw_vars, lg_vars, tc_vars>>

\* a type is seen through T~is_send and T~is_sync
Caps == [send : BOOLEAN, sync : BOOLEAN]

\* int: builtins are send and sync
CapInit ==
  /\ cap_ty = [send |-> TRUE, sync |-> TRUE]
  /\ cap_members = <<>>
  /\ cap_last = [w |-> "int", arg |-> cap_ty, members |-> <<>>, res |-> cap_ty]

\* a class without the attribute: it is send (sync) if all its subobjects are
auto_caps(members) ==
  [send |-> \A i \in DOMAIN members : members[i].send,
   sync |-> \A i \in DOMAIN members : members[i].sync]

\* (mutant) the lock does not supply sync
mutex_caps_auto(T) == auto_caps(<<T>>)

\* [[unsafe::send(T~is_send), unsafe::sync(T~is_send)]] mutex, shared_mutex
mutex_caps(T) == [send |-> T.send, sync |-> T.send]

\* [[unsafe::send(T~is_send && T~is_sync), unsafe::sync(T~is_send &&
\* T~is_sync)]] arc
arc_caps(T) == [send |-> T.send /\ T.sync, sync |-> T.send /\ T.sync]

\* [[unsafe::send(false)]] rc; its sync is derived from the member
\* rc_inner* unsafe p_ (passed in as p_sync)
rc_caps(T, p_sync) == [send |-> FALSE, sync |-> p_sync]

\* [[unsafe::sync(false)]] cell over [[unsafe::sync(false)]] unsafe_cell<T>;
\* its send is derived from the member
cell_caps(T) == [send |-> auto_caps(<<T>>).send, sync |-> FALSE]

\* struct [[unsafe::send(s), unsafe::sync(y)]] X { };
CapStruct(c) ==
  /\ cap_ty' = c
  /\ cap_last' = [w |-> "struct", arg |-> c, members |-> <<>>, res |-> c]
  /\ UNCHANGED <<cap_members, not_cap>>

\* W<T> for the type T at hand
CapWrap(w, p_sync) ==
  /\ cap_ty' = CASE w \in {"mutex", "shared_mutex"} -> mutex_caps(cap_ty)
                  [] w = "arc" -> arc_caps(cap_ty)
                  [] w = "rc" -> rc_caps(cap_ty, p_sync)
                  [] w = "cell" -> cell_caps(cap_ty)
  /\ cap_last' = [w |-> w, arg |-> cap_ty, members |-> <<>>, res |-> cap_ty']
  /\ UNCHANGED <<cap_members, not_cap>>

\* the type at hand becomes a member of the class being written
CapMember ==
  /\ Len(cap_members) < MaxCapMembers
  /\ cap_members' = Append(cap_members, cap_ty)
  /\ UNCHANGED <<cap_ty, cap_last, not_cap>>

\* MyClass<Ts...> with the collected members
CapClass ==
  /\ cap_members # <<>>
  /\ cap_ty' = auto_caps(cap_members)
  /\ cap_last' = [w |-> "class", arg |-> cap_ty, members |-> cap_members,
                  res |-> cap_ty']
  /\ cap_members' = <<>>
  /\ UNCHANGED not_cap

CapNext ==
  \/ \E c \in Caps : CapStruct(c)
  \/ \E w \in {"mutex", "shared_mutex", "arc", "rc", "cell"},
        p_sync \in BOOLEAN : CapWrap(w, p_sync)
  \/ CapMember
  \/ CapClass

(***************************************************************************)
(* atomic<int> shared by threads: each thread makes one incrementing call  *)
(* on the counter.  The call is one step: the read-modify-write of         *)
(* std::atomic<T>::fetch_add is indivisible and the rest of the member     *)
(* function works on the calling thread's own values.                      *)
(***************************************************************************)
not_cnt ==
  <<arc_vars, rc_vars, cell_vars, mtx_vars, add_vars, smtx_vars, rw_vars,
    atom_vars, box_vars, opt_vars, exp_vars, cl_vars, th_vars, af_vars,
    cap_vars, rcc_vars, bw_vars, lg_vars, tc_vars>>

CntThreads == 1..NumCntThreads

CntStarts == 0..MaxCntStart

CntInit ==
  /\ cnt_made = FALSE
  /\ cnt_x = 0
  /\ cnt_t = 0
  /\ cnt_pc = [t \in CntThreads |-> "ready"]
  /\ cnt_ret = [t \in CntThreads |-> 0]

\* atomic(T t = T()): t_(rel t)
CntNew(x) ==
  /\ ~cnt_made
  /\ cnt_made' = TRUE
  /\ cnt_x' = x
  /\ cnt_t' = x
  /\ UNCHANGED <<cnt_pc, cnt_ret, not_cnt>>

\* thread t's call, with result r
CntCall(t, name, r) ==
  /\ cnt_made
  /\ cnt_pc[t] = "ready"
  /\ cnt_t' = r.val
  /\ cnt_pc' = [cnt_pc EXCEPT ![t] = name]
  /\ cnt_ret' = [cnt_ret EXCEPT ![t] = r.ret]
  /\ UNCHANGED <<cnt_made, cnt_x, not_cnt>>

\* counter.add_fetch(1)
CntAddFetch(t) == CntCall(t, "add_fetch", add_fetch(cnt_t, 1))

\* ++counter
CntPreInc(t) == CntCall(t, "++x", atomic_pre_inc(cnt_t))

CntNext ==
  \/ \E x \in CntStarts : CntNew(x)
  \/ \E t \in CntThreads : CntAddFetch(t)
  \/ \E t \in CntThreads : CntPreInc(t)

(***************************************************************************)
(* rc<ref_cell<int>>: several handles to one block, borrows taken through  *)
(* them (single-header std2.h; rc is not send, so one thread runs it all)  *)
(***************************************************************************)
not_rcc ==
  <<arc_vars, rc_vars, cell_vars, mtx_vars, add_vars, smtx_vars, rw_vars,
    atom_vars, box_vars, opt_vars, exp_vars, cl_vars, th_vars, af_vars,
    cap_vars, cnt_vars, bw_vars, lg_vars, tc_vars>>

RccBlocks == 1..NumRccBlocks

RccHandles == 1..NumRccHandles

RccGuards == 1..NumRccGuards

RccNoGuard == [kind |-> "none", via |-> 0, value |-> 0, cnt |-> 0]

RccInit ==
  /\ rcc_p = [h \in RccHandles |-> 0]
  /\ rcc_obj = [h \in RccHandles |-> 0]
  /\ rcc_strong = [b \in RccBlocks |-> 0]
  /\ rcc_borrow = [b \in RccBlocks |-> 0]
  /\ rcc_guard = [g \in RccGuards |-> RccNoGuard]
  /\ rcc_last = [op |-> "-", via |-> 0, ret |-> "-", conflict |-> FALSE]

\* the live guards taken through handles made for block b
RccGuardsOn(b, kinds) ==
  {g \in RccGuards : rcc_guard[g].kind \in kinds
                       /\ rcc_obj[rcc_guard[g].via] = b}

\* rc(T t): p_(new rc_inner(rel t)), strong_(1); the ref_cell<int> moved in was
\* built by ref_cell(T t) with borrow_count_{0}
RccNew(h, b) ==
  /\ rcc_p[h] = 0
  /\ rcc_strong[b] = 0
  /\ rcc_p' = [rcc_p EXCEPT ![h] = b]
  /\ rcc_obj' = [rcc_obj EXCEPT ![h] = b]
  /\ rcc_strong' = [rcc_strong EXCEPT ![b] = 1]
  /\ rcc_borrow' = [rcc_borrow EXCEPT ![b] = 0]
  /\ UNCHANGED <<rcc_guard, rcc_last, not_rcc>>

\* (mutant) the copy gets a block of its own
rc_copy_p_apart(rhs_p) == (rhs_p % NumRccBlocks) + 1

\* rc(rc const^ rhs): p_(rhs->p_)
rc_copy_p(rhs_p) == rhs_p

\* rc(rc const^ rhs): p_(rhs->p_) { ++p_->strong_; }
RccCopy(h, rhs) ==
  /\ rcc_p[h] = 0
  /\ rcc_p[rhs] # 0
  /\ LET p == rc_copy_p(rcc_p[rhs]) IN
       /\ rcc_p' = [rcc_p EXCEPT ![h] = p]
       /\ rcc_strong' = [rcc_strong EXCEPT ![p] = rc_pre_inc(@)]
  /\ rcc_obj' = [rcc_obj EXCEPT ![h] = rcc_obj[rhs]]
  /\ UNCHANGED <<rcc_borrow, rcc_guard, rcc_last, not_rcc>>

\* T const^ operator->(self const^): return *self->p_->data_.get();
rc_arrow(p) == p

\* p->try_borrow() / p->try_borrow_mut() through handle h: the call on the
\* ref_cell that operator-> yields; a guard made holds t_.get() and
\* borrow_count_ of that cell
RccBorrow(h, op, kind, ret, b) ==
  LET c == rc_arrow(rcc_p[h])
      free == {g \in RccGuards : rcc_guard[g].kind = "none"} IN
    /\ rcc_p[h] # 0
    /\ rcc_last' = [op |-> op, via |-> h, ret |-> ret,
                    conflict |->
                      IF kind = "ref"
                        THEN RccGuardsOn(rcc_obj[h], {"ref_mut"}) # {}
                        ELSE RccGuardsOn(rcc_obj[h], {"ref", "ref_mut"}) # {}]
    /\ IF ret = "some"
         THEN /\ free # {}
              /\ rcc_guard' = [rcc_guard EXCEPT ![Min(free)] =
                                 [kind |-> kind, via |-> h, value |-> c,
                                  cnt |-> c]]
              /\ rcc_borrow' = [rcc_borrow EXCEPT ![c] = b]
         ELSE UNCHANGED <<rcc_guard, rcc_borrow>>
    /\ UNCHANGED <<rcc_p, rcc_obj, rcc_strong, not_rcc>>

RccTryBorrow(h) ==
  LET b == rcc_borrow[rc_arrow(rcc_p[h])] IN
    RccBorrow(h, "try_borrow", "ref", try_borrow_ret(b), ref_ctor(b))

RccTryBorrowMut(h) ==
  LET b == rcc_borrow[rc_arrow(rcc_p[h])] IN
    RccBorrow(h, "try_borrow_mut", "ref_mut", try_borrow_mut_ret(b),
              ref_mut_ctor(b))

\* ~ref() / ~ref_mut() of guard g, on the counter the guard holds
RccGuardDrop(g) ==
  LET c == rcc_guard[g].cnt IN
    /\ rcc_guard[g].kind # "none"
    /\ rcc_borrow' = [rcc_borrow EXCEPT ![c] =
                        IF rcc_guard[g].kind = "ref" THEN ref_dtor(@)
                                                     ELSE ref_mut_dtor(@)]
    /\ rcc_guard' = [rcc_guard EXCEPT ![g] = RccNoGuard]
    /\ UNCHANGED <<rcc_p, rcc_obj, rcc_strong, rcc_last, not_rcc>>

\* ~rc() of handle h: --p_->strong_, and at 0 the ref_cell is destroyed and
\* the block deleted.  A guard borrows the handle it was taken through, so
\* the handle outlives it.
RccDrop(h) ==
  /\ rcc_p[h] # 0
  /\ \A g \in RccGuards : rcc_guard[g].via # h
  /\ rcc_strong' = [rcc_strong EXCEPT ![rcc_p[h]] = rc_pre_dec(@)]
  /\ rcc_p' = [rcc_p EXCEPT ![h] = 0]
  /\ rcc_obj' = [rcc_obj EXCEPT ![h] = 0]
  /\ UNCHANGED <<rcc_borrow, rcc_guard, rcc_last, not_rcc>>

RccNext ==
  \/ \E h \in RccHandles, b \in RccBlocks : RccNew(h, b)
  \/ \E h \in RccHandles, rhs \in RccHandles : RccCopy(h, rhs)
  \/ \E h \in RccHandles : RccTryBorrow(h)
  \/ \E h \in RccHandles : RccTryBorrowMut(h)
  \/ \E g \in RccGuards : RccGuardDrop(g)
  \/ \E h \in RccHandles : RccDrop(h)

(***************************************************************************)
(* ref_cell<T>: the borrow counter as the int it is.  Shared borrows are   *)
(* taken, destroyed, or passed to forget, which ends a ref without running *)
(* its destructor.                                                         *)
(***************************************************************************)
not_bw ==
  <<arc_vars, rc_vars, cell_vars, mtx_vars, add_vars, smtx_vars, rw_vars,
    atom_vars, box_vars, opt_vars, exp_vars, cl_vars, th_vars, af_vars,
    cap_vars, cnt_vars, rcc_vars, lg_vars, tc_vars>>

IntMax == 2 ^ (BorrowBits - 1) - 1

IntMin == 0 - 2 ^ (BorrowBits - 1)

\* the values of an int
IntW == IntMin..IntMax

\* a + b on int: the sum when it is representable; signed overflow is
\* undefined, and the int stored afterwards can be any
int_add(a, b) == IF a + b \in IntW THEN {a + b} ELSE IntW

\* ref_cell(T t): borrow_count_{0}
BwInit ==
  /\ bw_borrow = 0
  /\ bw_live = 0
  /\ bw_last = [op |-> "ref_cell", pre |-> 0, post |-> 0, ret |-> "-"]

\* optional<ref> try_borrow(self const^):
\*   auto b = borrow_count_.get(); if (b < 0) return .none;
\*   return .some(ref{...})   with ref::ref: borrow_.set(borrow_.get() + 1)
BwTryBorrow ==
  LET b == bw_borrow
      ret == try_borrow_ret(b) IN
    IF ret = "some"
      THEN /\ bw_live < MaxBwLive
           /\ \E v \in int_add(b, 1) :
                /\ bw_borrow' = v
                /\ bw_last' = [op |-> "try_borrow", pre |-> b, post |-> v,
                               ret |-> ret]
           /\ bw_live' = bw_live + 1
           /\ UNCHANGED not_bw
      ELSE /\ bw_last' = [op |-> "try_borrow", pre |-> b, post |-> b,
                          ret |-> ret]
           /\ UNCHANGED <<bw_borrow, bw_live, not_bw>>

\* ~ref(): auto b = borrow_.get(); borrow_.set(b - 1)
BwRefDrop ==
  /\ bw_live > 0
  /\ \E v \in int_add(bw_borrow, -1) :
       /\ bw_borrow' = v
       /\ bw_last' = [op |-> "~ref", pre |-> bw_borrow, post |-> v,
                      ret |-> "-"]
  /\ bw_live' = bw_live - 1
  /\ UNCHANGED not_bw

\* forget(rel r) of a live ref: manually_drop<ref>(rel t), no destructor runs
BwForget ==
  /\ bw_live > 0
  /\ bw_live' = bw_live - 1
  /\ bw_last' = [op |-> "forget", pre |-> bw_borrow, post |-> bw_borrow,
                 ret |-> "-"]
  /\ UNCHANGED <<bw_borrow, not_bw>>

BwNext ==
  \/ BwTryBorrow
  \/ BwRefDrop
  \/ BwForget

(***************************************************************************)
(* mutex<T>::lock_guard and std2::thread: where a guard can end up.  The   *)
(* only way a value reaches another thread is as an argument of the thread *)
(* constructor.                                                            *)
(***************************************************************************)
not_lg ==
  <<arc_vars, rc_vars, cell_vars, mtx_vars, add_vars, smtx_vars, rw_vars,
    atom_vars, box_vars, opt_vars, exp_vars, cl_vars, th_vars, af_vars,
    cap_vars, cnt_vars, rcc_vars, bw_vars, tc_vars>>

LgThreads == 1..NumLgThreads

LgInit ==
  /\ lg_mutex = [made |-> FALSE, static |-> FALSE,
                 T |-> [send |-> TRUE, sync |-> TRUE]]
  /\ lg_thread = [t \in LgThreads |-> IF t = 1 THEN "running" ELSE "unborn"]
  /\ lg_owner = 0
  /\ lg_guard = 0
  /\ lg_maker = 0
  /\ lg_locks = 0
  /\ lg_unlocks = 0
  /\ lg_last = [op |-> "-", by |-> 0, owner |-> 0, maker |-> 0]

\* shared borrows const T^ are send if T is sync, and sync if T is sync
const_borrow_caps(T) == [send |-> T.sync, sync |-> T.sync]

\* class lock_guard/(a) { mutex const^/a m_; ... }: no send or sync attribute,
\* so both come from its one member
lock_guard_caps(T) == auto_caps(<<const_borrow_caps(mutex_caps(T))>>)

\* thread/(where F: static, Args...: static)(F f, Args... args)
\*   requires(F~is_send && (Args~is_send && ...) && ...)
thread_accepts(arg_caps, arg_static) == arg_caps.send /\ arg_static

\* mutex(T data), as an object with static storage duration (a const object
\* of namespace scope or a static local, which safe code may name) or as any
\* other object
LgNew(st, T) ==
  /\ ~lg_mutex.made
  /\ lg_mutex' = [made |-> TRUE, static |-> st, T |-> T]
  /\ UNCHANGED <<lg_thread, lg_owner, lg_guard, lg_maker, lg_locks,
                 lg_unlocks, lg_last, not_lg>>

\* lock_guard lock(self const^): std::mutex::lock() returns when the std::mutex
\* is free and takes it; return lock_guard(self)
LgLock(t) ==
  /\ lg_mutex.made
  /\ lg_thread[t] = "running"
  /\ lg_locks < MaxLgLocks
  /\ lock_may_return(lg_owner)
  /\ lg_guard = 0
  /\ lg_owner' = t
  /\ lg_guard' = t
  /\ lg_maker' = t
  /\ lg_locks' = lg_locks + 1
  /\ UNCHANGED <<lg_mutex, lg_thread, lg_unlocks, lg_last, not_lg>>

\* std2::thread(f, args...) made by thread t: the new thread u runs f; with
\* the guard among the arguments (rel guard), the guard's type has to be send
\* and to outlive static, which the guard of a mutex of static storage
\* duration does, its lifetime being that of the borrow of the mutex
LgSpawn(t, u, with_guard) ==
  /\ lg_thread[t] = "running"
  /\ lg_thread[u] = "unborn"
  /\ lg_thread' = [lg_thread EXCEPT ![u] = "running"]
  /\ IF with_guard
       THEN /\ lg_guard = t
            /\ thread_accepts(lock_guard_caps(lg_mutex.T), lg_mutex.static)
            /\ lg_guard' = u
       ELSE UNCHANGED lg_guard
  /\ UNCHANGED <<lg_mutex, lg_owner, lg_maker, lg_locks, lg_unlocks, lg_last,
                 not_lg>>

\* ~lock_guard() on the thread that has the guard: m_->mtx_->get()->unlock().
\* std::mutex::unlock() by a thread that does not own the std::mutex is
\* undefined: the std::mutex is released all the same or stays held.
LgGuardDrop(t) ==
  /\ lg_guard = t
  /\ lg_guard' = 0
  /\ lg_owner' \in (IF lg_owner = t THEN {0} ELSE {0, lg_owner})
  /\ lg_unlocks' = lg_unlocks + 1
  /\ lg_last' = [op |-> "unlock", by |-> t, owner |-> lg_owner,
                 maker |-> lg_maker]
  /\ UNCHANGED <<lg_mutex, lg_thread, lg_maker, lg_locks, not_lg>>

LgNext ==
  \/ \E st \in BOOLEAN, T \in Caps : LgNew(st, T)
  \/ \E t \in LgThreads : LgLock(t)
  \/ \E t \in LgThreads, u \in LgThreads, g \in BOOLEAN : LgSpawn(t, u, g)
  \/ \E t \in LgThreads : LgGuardDrop(t)

(***************************************************************************)
(* thread::thread and thread::call: the tuple (F, (Args...)) is boxed by   *)
(* the constructor, its address given to the new thread, and the box       *)
(* forgotten; call rebuilds the box, takes the tuple out and invokes it.   *)
(***************************************************************************)
not_tc ==
  <<arc_vars, rc_vars, cell_vars, mtx_vars, add_vars, smtx_vars, rw_vars,
    atom_vars, box_vars, opt_vars, exp_vars, cl_vars, th_vars, af_vars,
    cap_vars, cnt_vars, rcc_vars, bw_vars, lg_vars>>

TcThreads == 1..NumTcThreads

TcArgs == 0..MaxTcArg

TcInit ==
  /\ tc_ctor = [h \in TcThreads |-> "none"]
  /\ tc_run = [h \in TcThreads |-> "unborn"]
  /\ tc_args = [h \in TcThreads |-> 0]
  /\ tc_heap = [h \in TcThreads |-> [mem |-> "none", val |-> 0]]
  /\ tc_tup = [h \in TcThreads |-> -1]
  /\ tc_log = [h \in TcThreads |-> <<>>]
  /\ tc_calls = [h \in TcThreads |-> <<>>]

\* the events ev of a box operation, done by who to the heap tuple of h
TcAfter(h, ev, who) ==
  /\ tc_log' = [tc_log EXCEPT ![h] =
                  @ \o [i \in DOMAIN ev |-> [ev |-> ev[i], by |-> who]]]
  /\ tc_heap' = [tc_heap EXCEPT ![h].mem =
                   IF \E i \in DOMAIN ev : ev[i] = "free" THEN "freed" ELSE @]

\* thread(F f, Args... args): box<tuple_type> p{(rel f, (rel args...,))}
TcBox(h, a) ==
  /\ tc_ctor[h] = "none"
  /\ \A g \in TcThreads : g < h => tc_ctor[g] \in {"done", "thrown"}
  /\ tc_ctor' = [tc_ctor EXCEPT ![h] = "boxed"]
  /\ tc_args' = [tc_args EXCEPT ![h] = a]
  /\ tc_heap' = [tc_heap EXCEPT ![h] = [mem |-> "allocated", val |-> a]]
  /\ UNCHANGED <<tc_run, tc_tup, tc_log, tc_calls, not_tc>>

\* thread(...): t_ = std::thread(&call<F, Args...>, p.get())
TcStart(h) ==
  /\ tc_ctor[h] = "boxed"
  /\ tc_ctor' = [tc_ctor EXCEPT ![h] = "started"]
  /\ tc_run' = [tc_run EXCEPT ![h] = "entered"]
  /\ UNCHANGED <<tc_args, tc_heap, tc_tup, tc_log, tc_calls, not_tc>>

\* thread(...): std::thread's constructor throws std::system_error (no thread
\* could be made); the constructor is left and its local p destroyed
TcThrow(h) ==
  /\ tc_ctor[h] = "boxed"
  /\ tc_ctor' = [tc_ctor EXCEPT ![h] = "thrown"]
  /\ TcAfter(h, box_dtor("include"), "spawner")
  /\ UNCHANGED <<tc_run, tc_args, tc_tup, tc_calls, not_tc>>

\* thread(...): forget(rel p)
TcForget(h) ==
  /\ tc_ctor[h] = "started"
  /\ tc_ctor' = [tc_ctor EXCEPT ![h] = "done"]
  /\ TcAfter(h, forget("include"), "spawner")
  /\ UNCHANGED <<tc_run, tc_args, tc_tup, tc_calls, not_tc>>

\* call: box<(F, (Args...,))> p = p_tup
TcRebuild(h) ==
  /\ tc_run[h] = "entered"
  /\ tc_run' = [tc_run EXCEPT ![h] = "rebuilt"]
  /\ UNCHANGED <<tc_ctor, tc_args, tc_heap, tc_tup, tc_log, tc_calls, not_tc>>

\* call: auto tup = p rel.into_inner()
TcIntoInner(h) ==
  /\ tc_run[h] = "rebuilt"
  /\ tc_run' = [tc_run EXCEPT ![h] = "unboxed"]
  /\ tc_tup' = [tc_tup EXCEPT ![h] = tc_heap[h].val]
  /\ TcAfter(h, into_inner("include"), "spawned")
  /\ UNCHANGED <<tc_ctor, tc_args, tc_calls, not_tc>>

\* call: mut tup.0 rel.(rel tup.1.[:] ...)
TcInvoke(h) ==
  /\ tc_run[h] = "unboxed"
  /\ tc_run' = [tc_run EXCEPT ![h] = "done"]
  /\ tc_calls' = [tc_calls EXCEPT ![h] = Append(@, tc_tup[h])]
  /\ UNCHANGED <<tc_ctor, tc_args, tc_heap, tc_tup, tc_log, not_tc>>

TcNext ==
  \/ \E h \in TcThreads, a \in TcArgs : TcBox(h, a)
  \/ \E h \in TcThreads : TcStart(h)
  \/ \E h \in TcThreads : TcThrow(h)
  \/ \E h \in TcThreads : TcForget(h)
  \/ \E h \in TcThreads : TcRebuild(h)
  \/ \E h \in TcThreads : TcIntoInner(h)
  \/ \E h \in TcThreads : TcInvoke(h)

(***************************************************************************)
(* Specifications                                                          *)
(***************************************************************************)
Init ==
  /\ ArcInit /\ RcInit /\ CellInit /\ MtxInit /\ AdderInit /\ SmtxInit
  /\ RwInit /\ AtomicInit /\ BoxInit /\ OptInit /\ ExpInit /\ PCellInit /\ ThInit /\ AfInit /\ CapInit
  /\ CntInit /\ RccInit /\ BwInit /\ LgInit /\ TcInit

Next ==
  \/ ArcNext \/ RcNext \/ CellNext \/ MtxNext \/ AdderNext \/ SmtxNext
  \/ RwNext \/ AtomicNext \/ BoxNext \/ OptNext \/ ExpNext \/ PCellNext \/ ThNext \/ AfNext \/ CapNext
  \/ CntNext \/ RccNext \/ BwNext \/ LgNext \/ TcNext

Spec == Init /\ [][Next]_vars

\* One component runs and the others stay as constructed (their payloads
\* fixed, since nothing reads them).
InitArc == Init /\ cell_t = 0 /\ mtx_data = 0

InitRc == Init /\ cell_t = 0 /\ mtx_data = 0

InitCell == Init /\ mtx_data = 0

InitMutex == Init /\ cell_t = 0

SpecArc == InitArc /\ [][ArcNext]_vars

SpecRc == InitRc /\ [][RcNext]_vars

SpecCell == InitCell /\ [][CellNext]_vars

SpecMutex == InitMutex /\ [][MtxNext]_vars

\* mutex_test: every thread is scheduled again and again (the OS scheduler
\* starves no runnable thread).
InitAdder == Init /\ cell_t = 0

AdderFair == \A t \in MtxThreads : WF_vars(AdderRun(t))

SpecAdder == InitAdder /\ [][AdderNext]_vars /\ AdderFair

InitSmtx == Init /\ cell_t = 0 /\ mtx_data = 0

SpecSmtx == InitSmtx /\ [][SmtxNext]_vars

SpecAtomic == InitSmtx /\ [][AtomicNext]_vars

SpecCounter == InitSmtx /\ [][CntNext]_vars

SpecRcCell == InitSmtx /\ [][RccNext]_vars

SpecBorrowInt == InitSmtx /\ [][BwNext]_vars

SpecGuard == InitSmtx /\ [][LgNext]_vars

SpecThreadCtor == InitSmtx /\ [][TcNext]_vars

SpecBox == InitSmtx /\ [][BoxNext]_vars

SpecOpt == InitSmtx /\ [][OptNext]_vars

SpecExp == InitSmtx /\ [][ExpNext]_vars

SpecCopy == InitSmtx /\ [][PCellNext]_vars

SpecThread == InitSmtx /\ [][ThNext]_vars

SpecAlloc == InitSmtx /\ [][AfNext]_vars

SpecCaps == InitSmtx /\ [][CapNext]_vars

\* A program whose threads use either the mutex or the shared_mutex; a thread
\* that can take a lock again and again eventually takes it.
MtxPristine == <<mtx_owner, mtx_pc, mtx_guards, mtx_borrow, mtx_seen>> =
  <<0, [t \in MtxThreads |-> "idle"], [t \in MtxThreads |-> 0],
    [t \in MtxThreads |-> FALSE], [t \in MtxThreads |-> -1]>>

SmtxPristine == <<smtx_data, smtx_writer, smtx_readers, smtx_pc, smtx_lg,
                  smtx_sg, smtx_err>> =
  <<0, 0, 0, [t \in SmtxThreads |-> "idle"], [t \in SmtxThreads |-> 0],
    [t \in SmtxThreads |-> 0], [t \in SmtxThreads |-> FALSE]>>

LocksNext ==
  \/ SmtxPristine /\ MtxNext
  \/ MtxPristine /\ SmtxNext

LocksFair ==
  /\ \A t \in MtxThreads : SF_vars(MtxLockReturn(t) /\ UNCHANGED add_vars)
  /\ \A t \in SmtxThreads : SF_vars(SmtxLockReturn(t) /\ UNCHANGED rw_vars)
  /\ \A t \in SmtxThreads :
       SF_vars(SmtxLockSharedReturn(t) /\ UNCHANGED rw_vars)

SpecLocks == InitSmtx /\ [][LocksNext]_vars /\ LocksFair

\* shared_mutex_test: every thread is scheduled again and again, and a writer
\* whose lock() can return again and again does get the lock.
RwFair ==
  /\ \A t \in RwWriters : SF_vars(RwWriter(t))
  /\ \A t \in RwReaders : WF_vars(RwReader(t))

SpecRw == InitSmtx /\ [][RwNext]_vars /\ RwFair

\* A program that builds its one control block either as an arc or as an rc.
InitShared == Init /\ cell_t = 0 /\ mtx_data = 0

SharedNext ==
  \/ \E t \in ArcThreads : rc_block = "none" /\ ArcNew(t)
  \/ arc_block = "none" /\ RcNew
  \/ ArcRun
  \/ RcRun

SpecShared == InitShared /\ [][SharedNext]_vars

(***************************************************************************)
(* Properties of arc and rc                                                *)
(***************************************************************************)
ArcDead == {h \in ArcHandles : arc_handle[h] = "dead"}

RcDead == {h \in RcHandles : rc_handle[h] = "dead"}

\* the block was built and every handle ever made has been destroyed
ArcAllGone ==
  arc_block # "none" /\ \A h \in ArcHandles : arc_handle[h] \in {"unborn", "dead"}

RcAllGone ==
  rc_block # "none" /\ \A h \in RcHandles : rc_handle[h] \in {"unborn", "dead"}

\* C1: whatever the interleaving of arc copies and drops over the threads,
\* the payload is destroyed at most once; only the destructor whose decrement
\* left strong_ at 0 destroys it, and not while another handle is live or
\* being made; that destructor does destroy it; and once every handle is gone
\* it has been destroyed exactly once.
C1_ArcPayloadDestroyedOnce ==
  LET d == Entries(arc_log, "destroy") IN
    /\ Cardinality(d) <= 1
    /\ Cardinality(arc_zero) <= 1
    /\ \A i \in d : /\ arc_zero = {arc_log[i].h}
                    /\ \A h \in ArcHandles :
                         arc_handle[h] \in {"unborn", "dtor", "dead"}
    /\ \A h \in arc_zero :
         \/ d # {}
         \/ \E t \in ArcThreads : arc_pc[t] = "destroy" /\ arc_cur[t] = h
    /\ ArcAllGone => Cardinality(d) = 1

\* C1 witness: four handles spread over two threads or more are all gone and
\* the payload was destroyed by the destructor of handle 2.
C1_Witness ==
  /\ ArcAllGone
  /\ Cardinality(ArcDead) = MaxArcHandles
  /\ \E i \in Entries(arc_log, "destroy") : arc_log[i].h = 2
  /\ arc_owner[2] # arc_owner[1]

\* a live handle keeps the block: strong_ counts the live handles, the payload
\* is alive, the block is allocated, and no dereference found anything else
KeepsAlive(live, strong, data, block, read) ==
  /\ live # {} => /\ strong >= 1
                  /\ strong = Cardinality(live)
                  /\ data = "alive"
                  /\ block = "allocated"
  /\ read \in {"none", "alive"}

\* C2: while a handle (arc or rc) to the block is live, strong_ is >= 1 and is
\* the number of live handles, the payload is not destroyed and the block is
\* not freed; a dereference of a live handle never finds a destroyed payload
\* or a freed block.
C2_LiveHandleKeepsPayload ==
  /\ KeepsAlive(ArcLive, arc_strong, arc_data, arc_block, arc_read)
  /\ KeepsAlive(RcLive, rc_strong, rc_data, rc_block, rc_read)

\* C2 witness: two arc handles on different threads are live after another
\* handle was destroyed, and one of them has been dereferenced.
C2_Witness ==
  /\ arc_read = "alive"
  /\ ArcDead # {}
  /\ \E h1 \in ArcLive, h2 \in ArcLive : arc_owner[h1] # arc_owner[h2]

\* the events of the destructor that found strong_ at 0 come in the order
\* destroy, weak decrement, free, each once; the block is freed only with
\* weak_ at 0 and the payload destroyed
FreedInOrder(log, zero, block, data, weak) ==
  /\ IsPrefix(Events(log), <<"destroy", "weak", "free">>)
  /\ \A i \in 1..Len(log) : zero = {log[i].h}
  /\ (block = "freed") = (Entries(log, "free") # {})
  /\ block = "freed" => /\ data = "destroyed"
                        /\ weak = 0
                        /\ \A i \in Entries(log, "weak") : log[i].val = 0

\* C3: the control block (of an arc or an rc) is freed at most once, only with
\* weak_ gone to 0 and the payload destroyed before; the destructor that
\* brings strong_ to 0 destroys the payload, then decrements weak_, then
\* frees the block.
C3_BlockFreedLast ==
  /\ FreedInOrder(arc_log, arc_zero, arc_block, arc_data, arc_weak)
  /\ FreedInOrder(rc_log, rc_zero, rc_block, rc_data, rc_weak)

\* C3 witness: the arc block has been freed after the three events, by the
\* last of several handles.
C3_Witness ==
  /\ arc_block = "freed"
  /\ Len(arc_log) = 3
  /\ Cardinality(ArcDead) >= 3

\* C4: on one thread, strong_ of an rc block is the number of live handles;
\* the payload is destroyed at most once, by the drop that leaves no live
\* handle, and that same drop frees the block; once every handle is gone the
\* payload has been destroyed once and the block freed once.
C4_RcCountsHandles ==
  LET d == Entries(rc_log, "destroy")
      f == Entries(rc_log, "free") IN
    /\ rc_block = "allocated" => rc_strong = Cardinality(RcLive)
    /\ Cardinality(d) <= 1
    /\ Cardinality(f) <= 1
    /\ \A i \in d : rc_zero = {rc_log[i].h} /\ RcLive = {}
    /\ \A i \in d : \A j \in f : rc_log[i].h = rc_log[j].h
    /\ f # {} => d # {}
    /\ RcAllGone => Cardinality(d) = 1 /\ Cardinality(f) = 1

\* C4 witness: every rc handle that could be made was made and dropped, and
\* the drop of handle 2 destroyed the payload and freed the block.
C4_Witness ==
  /\ RcAllGone
  /\ Cardinality(RcDead) = MaxRcHandles
  /\ \E i \in Entries(rc_log, "free") : rc_log[i].h = 2

C6_TryBorrowShared ==
  cell_last.op = "try_borrow" =>
    /\ cell_last.pre.c >= 0 =>
         /\ cell_last.ret = "some"
         /\ cell_last.post.c = cell_last.pre.c + 1
         /\ cell_last.post.refs = cell_last.pre.refs + 1
    /\ cell_last.pre.c < 0 => cell_last.ret = "none"

\* C6 witness: the second of two try_borrow calls on an unborrowed cell has
\* succeeded and both refs are live.
C6_Witness ==
  /\ cell_last.op = "try_borrow"
  /\ cell_last.ret = "some"
  /\ cell_last.pre.c = 1
  /\ cell_last.pre.refs = 1
  /\ Cardinality(CellRefs) = 2
  /\ cell_borrow = 2

\* C7: the counter is >= -1; it is -1 exactly when one ref_mut and no ref is
\* live; otherwise it is the number of live refs (copies included) and no
\* ref_mut is live. So a live ref_mut is alone.
C7_CounterCountsGuards ==
  LET refs == Cardinality(CellRefs)
      muts == Cardinality(CellRefMuts) IN
    /\ cell_borrow >= -1
    /\ (cell_borrow = -1) = (muts = 1 /\ refs = 0)
    /\ cell_borrow # -1 => cell_borrow = refs /\ muts = 0
    /\ muts <= 1
    /\ muts = 1 => refs = 0

\* C7 witness: a ref has just been destroyed and two refs stay live, one of
\* them possibly a copy.
C7_Witness ==
  /\ cell_last.op = "~ref"
  /\ cell_last.pre.c = 3
  /\ cell_borrow = 2
  /\ Cardinality(CellRefs) = 2

\* the call recorded in cell_last met a borrow it conflicts with
CellConflict ==
  \/ cell_last.op = "try_borrow" /\ cell_last.pre.muts > 0
  \/ /\ cell_last.op = "try_borrow_mut"
     /\ cell_last.pre.refs + cell_last.pre.muts > 0

\* C8: a try_borrow or try_borrow_mut that conflicts with an outstanding
\* borrow returns none, makes no guard, and leaves counter and payload as
\* they were (and does not panic).
C8_FailedTryChangesNothing ==
  CellConflict =>
    /\ cell_last.ret = "none"
    /\ cell_last.post = cell_last.pre
    /\ ~cell_panicked

\* C8 witness: try_borrow_mut was refused while two refs were live.
C8_Witness ==
  /\ cell_last.op = "try_borrow_mut"
  /\ cell_last.ret = "none"
  /\ cell_last.pre.refs = 2
  /\ Cardinality(CellRefs) = 2

\* what borrow / borrow_mut did, against what the try-variant does from the
\* same counter
CellBorrowAsTry ==
  /\ cell_last.op = "borrow" =>
       /\ (cell_last.ret = "panic") = (try_borrow_ret(cell_last.pre.c) = "none")
       /\ cell_last.ret # "panic" =>
            /\ cell_last.ret = "some"
            /\ cell_last.post.c = ref_ctor(cell_last.pre.c)
            /\ cell_last.post.refs = cell_last.pre.refs + 1
            /\ cell_last.post.muts = cell_last.pre.muts
  /\ cell_last.op = "borrow_mut" =>
       /\ (cell_last.ret = "panic")
            = (try_borrow_mut_ret(cell_last.pre.c) = "none")
       /\ cell_last.ret # "panic" =>
            /\ cell_last.ret = "some"
            /\ cell_last.post.c = ref_mut_ctor(cell_last.pre.c)
            /\ cell_last.post.muts = cell_last.pre.muts + 1
            /\ cell_last.post.refs = cell_last.pre.refs
  /\ cell_panicked = (cell_last.ret = "panic")
  /\ cell_panicked => cell_last.post = cell_last.pre

\* C9: borrow panics exactly when try_borrow would return none and
\* borrow_mut exactly when try_borrow_mut would; otherwise each yields the
\* guard of its try-variant; a panic makes no guard, and no step of the
\* program follows it.
C9_BorrowPanicsAsTryFails ==
  /\ []CellBorrowAsTry
  /\ [][~cell_panicked]_vars

\* C9 witness: borrow_mut has panicked on a cell with a live ref.
C9_Witness ==
  /\ cell_last.op = "borrow_mut"
  /\ cell_last.ret = "panic"
  /\ cell_panicked
  /\ Cardinality(CellRefs) = 1

(***************************************************************************)
(* Properties of mutex                                                     *)
(***************************************************************************)
MtxHolders == {t \in MtxThreads : mtx_guards[t] > 0}

\* C10: at most one lock_guard of the mutex is live, it belongs to the thread
\* that holds the std::mutex, and at most one thread holds a borrow of the
\* payload.
C10_OneLockGuard ==
  /\ Cardinality(MtxHolders) <= 1
  /\ \A t \in MtxThreads : mtx_guards[t] <= 1
  /\ \A t \in MtxHolders : mtx_owner = t
  /\ \A t \in MtxThreads : mtx_borrow[t] => t \in MtxHolders
  /\ Cardinality({t \in MtxThreads : mtx_borrow[t]}) <= 1

\* C10 witness: one thread holds the guard and a borrow of the payload while
\* two others are inside lock(), after another thread has had the lock.
C10_Witness ==
  /\ mtx_borrow[1]
  /\ mtx_guards[1] = 1
  /\ mtx_pc[2] = "locking"
  /\ mtx_pc[3] = "locking"
  /\ mtx_seen[2] # -1

(***************************************************************************)
(* Properties of mutex_test                                                *)
(***************************************************************************)
AdderTotal == add_init + Cardinality(Adders) * AdderIters

AddersDone == \A t \in Adders : add_pc[t] = "done"

\* C11: N threads each doing K read-increment-write rounds under the lock all
\* terminate, and the payload ends at its initial value plus N*K, which is also
\* what main reads after the joins.
C11_NoLostUpdate ==
  /\ <>[](\A t \in MtxThreads : add_pc[t] = "done")
  /\ [](AddersDone => mtx_data = AdderTotal)
  /\ [](add_pc[AdderMain] = "done" => add_val = AdderTotal)

\* C11 witness: main has joined every adder and read initial + N*K from a
\* mutex constructed with a non-zero payload.
C11_Witness ==
  /\ add_pc[AdderMain] = "done"
  /\ AddersDone
  /\ add_init > 0
  /\ add_val = AdderTotal
  /\ \A t \in Adders : add_i[t] = AdderIters

(***************************************************************************)
(* Properties of shared_mutex                                              *)
(***************************************************************************)
RECURSIVE SumOver(_, _)
\* the sum of f[x] over x in S
SumOver(f, S) ==
  IF S = {} THEN 0
  ELSE LET x == CHOOSE y \in S : TRUE IN f[x] + SumOver(f, S \ {x})

SmtxLiveExclusive == SumOver(smtx_lg, SmtxThreads)

SmtxLiveShared == SumOver(smtx_sg, SmtxThreads)

\* C12: no guard is live, or exactly one lock_guard and no shared_lock_guard,
\* or one or more shared_lock_guards and no lock_guard.
C12_SharedXorExclusive ==
  \/ SmtxLiveExclusive = 0 /\ SmtxLiveShared = 0
  \/ SmtxLiveExclusive = 1 /\ SmtxLiveShared = 0
  \/ SmtxLiveExclusive = 0 /\ SmtxLiveShared >= 1

\* C12 witness: two threads hold a shared_lock_guard at once while a third is
\* kept waiting inside lock().
C12_Witness ==
  /\ smtx_sg[1] = 1
  /\ smtx_sg[2] = 1
  /\ smtx_pc[3] = "lock"
  /\ SmtxLiveShared >= 2
  /\ SmtxLiveExclusive = 0

(***************************************************************************)
(* Properties of lock() and lock_shared()                                  *)
(***************************************************************************)
\* a call of lock() / lock_shared() ends only with the lock taken and a
\* guard made
LockEndsWithGuard ==
  /\ \A t \in MtxThreads :
       mtx_pc[t] = "locking" /\ mtx_pc'[t] = "idle"
         => mtx_owner' = t /\ mtx_guards'[t] = mtx_guards[t] + 1
  /\ \A t \in SmtxThreads :
       smtx_pc[t] = "lock" /\ smtx_pc'[t] = "idle"
         => smtx_writer' = t /\ smtx_lg'[t] = smtx_lg[t] + 1
  /\ \A t \in SmtxThreads :
       smtx_pc[t] = "lock_shared" /\ smtx_pc'[t] = "idle"
         => smtx_writer' = 0 /\ smtx_sg'[t] = smtx_sg[t] + 1

\* destroying a guard releases what its call took
GuardDropReleases ==
  /\ \A t \in MtxThreads : mtx_guards'[t] < mtx_guards[t] => mtx_owner' = 0
  /\ \A t \in SmtxThreads : smtx_lg'[t] < smtx_lg[t] => smtx_writer' = 0
  /\ \A t \in SmtxThreads :
       smtx_sg'[t] < smtx_sg[t] => smtx_readers' = smtx_readers - 1

\* every holder eventually drops its guard: no guard is held for ever
HoldersLetGo ==
  /\ \A t \in MtxThreads : []<>(mtx_guards[t] = 0)
  /\ \A t \in SmtxThreads : []<>(smtx_lg[t] = 0)
  /\ \A t \in SmtxThreads : []<>(smtx_sg[t] = 0)

\* no thread stays blocked in a lock call for ever (and a call ends only with
\* the guard, by LockEndsWithGuard)
BlockedGetIn ==
  /\ \A t \in MtxThreads : []<>(mtx_pc[t] # "locking")
  /\ \A t \in SmtxThreads : []<>(smtx_pc[t] # "lock")
  /\ \A t \in SmtxThreads : []<>(smtx_pc[t] # "lock_shared")

\* C13: lock() and lock_shared() have no failure outcome (a call ends only
\* with the lock acquired and a guard returned), destroying the guard releases
\* the lock, and every thread blocked in a lock call eventually acquires the
\* lock provided every holder eventually drops its guard.
C13_LockNeverFails ==
  /\ [][LockEndsWithGuard]_vars
  /\ [][GuardDropReleases]_vars
  /\ (HoldersLetGo => BlockedGetIn)

(***************************************************************************)
(* Properties of shared_mutex_test                                         *)
(***************************************************************************)
RwAllDone == \A t \in SmtxThreads : rw_pc[t] = "done"

\* what the readers see and where the payload ends: every value read is in
\* 0..W*K and is the payload as the completed updates left it, with no update
\* under way; once the writers are done the payload is W*K
RwReadsWhole ==
  /\ rw_obs.v \in 0..RwValue
  /\ rw_obs.v = rw_obs.n
  /\ ~rw_obs.mid
  /\ (\A w \in RwWriters : rw_pc[w] = "done") => smtx_data = RwValue
  /\ \A r \in RwReaders : rw_pc[r] = "done" => rw_v[r] = RwValue

C15_AtomicReturns ==
  LET c == atom_last
      Is(names, val, ret) ==
        c.op \in names => atom_t = val /\ c.ret = ret
  IN /\ Is({"fetch_add", "x++"}, c.pre + c.arg, c.pre)
     /\ Is({"add_fetch", "++x"}, c.pre + c.arg, c.pre + c.arg)
     /\ Is({"fetch_sub", "x--"}, c.pre - c.arg, c.pre)
     /\ Is({"sub_fetch", "--x"}, c.pre - c.arg, c.pre - c.arg)

(***************************************************************************)
(* box<T>                                                                  *)
(***************************************************************************)
BoxOwners == {o \in BoxObjs : box_obj[o] = "owner"}

BoxCount(e) == Cardinality({i \in DOMAIN box_log : box_log[i] = e})

\* neither leak nor into_inner has been called
BoxPlain == ~box_leaked /\ box_inner = -1

\* every box object's scope has ended
BoxAllGone ==
  /\ box_impl # "none"
  /\ \A o \in BoxObjs : box_obj[o] \in {"gone", "unborn"}

\* C16: a dereference of a box yields the value it was constructed from, or
\* the value last written through its mutable borrow if there was such a
\* write; relocating the box to a new owner leaves the stored value as it
\* was, so the new owner's dereference yields it too.
C16_DerefYieldsStored ==
  [][ /\ (\E o \in BoxObjs : BoxRead(o)) => box_read' = box_given
      /\ \A t \in BoxValues :
           (\E impl \in {"include", "single"} : BoxNew(impl, t))
             \/ (\E o \in BoxObjs : BoxWrite(o, t))
           => box_val' = t
      /\ (\E o, q \in BoxObjs : BoxRel(o, q))
           => box_val' = box_val /\ box_given' = box_given ]_vars

\* the relocated box was written through and then read
C16_Witness ==
  /\ box_obj[1] = "moved"
  /\ box_obj[2] = "owner"
  /\ box_given = MaxBoxValue
  /\ box_read = MaxBoxValue

\* what C17 says of ownership and of the number of destructions and frees
BoxOwnedOnce ==
  /\ Cardinality(BoxOwners) <= 1
  /\ BoxCount("destroy") <= 1
  /\ BoxCount("free") <= 1
  /\ BoxOwners # {} =>
       box_heap = "allocated" /\ box_slot = "alive" /\ box_log = <<>>
  /\ box_impl # "none" /\ BoxOwners = {} =>
       box_heap = "freed" /\ BoxCount("destroy") = 1 /\ BoxCount("free") = 1

\* C17: without leak and into_inner, an allocation has at most one owning
\* box at a time (exactly one until it is freed), its payload is destroyed
\* exactly once and before the allocation is freed, and the allocation is
\* freed exactly once, neither twice because of a moved-from box nor never.
C17_DestroyThenFree ==
  BoxPlain =>
    /\ BoxOwnedOnce
    /\ \A i, j \in DOMAIN box_log :
         box_log[i] = "free" /\ box_log[j] = "destroy" => j < i

\* C17 (amended): the same, but the payload is either destroyed in place
\* before the free, or relocated out of the allocation before the free and
\* destroyed after it; it is never destroyed inside freed memory.
C17_PayloadLeavesThenFree ==
  BoxPlain =>
    /\ BoxOwnedOnce
    /\ \A i \in DOMAIN box_log :
         box_log[i] = "free" =>
           \E j \in 1..(i - 1) : box_log[j] \in {"destroy", "relocate"}
    /\ \A i, j \in DOMAIN box_log :
         box_log[i] = "free" /\ box_log[j] = "destroy" /\ i < j =>
           \E k \in 1..(i - 1) : box_log[k] = "relocate"

\* a box of include/std2/box.h was relocated twice and every scope has ended
C17_Witness ==
  /\ BoxPlain
  /\ BoxAllGone
  /\ box_impl = "include"
  /\ box_obj[MaxBoxObjs] = "gone"

\* C18: leak hands out the pointer and consumes the box without running its
\* destructor: from then on the payload is not destroyed and the allocation
\* is not freed, whatever scopes end afterwards, and no box owns it.
C18_LeakDisarms ==
  box_leaked =>
    /\ box_heap = "allocated"
    /\ box_slot = "alive"
    /\ box_val = box_given
    /\ box_log = <<>>
    /\ BoxOwners = {}

\* leak was called and the scope of the consumed box has ended
C18_Witness == box_leaked /\ BoxAllGone

\* C19: into_inner returns the stored payload, frees the allocation exactly
\* once and runs no destructor on the heap slot: afterwards the payload has
\* been relocated out of the freed allocation, so the returned value is its
\* only live copy, whatever scopes end afterwards.
C19_IntoInnerFreesOnce ==
  box_inner # -1 =>
    /\ box_inner = box_given
    /\ box_heap = "freed"
    /\ box_slot = "moved"
    /\ BoxCount("free") = 1
    /\ BoxCount("destroy") = 0
    /\ BoxOwners = {}

\* into_inner returned a written value and the consumed box's scope has ended
C19_Witness == box_inner = MaxBoxValue /\ BoxAllGone

(***************************************************************************)
(* optional<T>                                                             *)
(***************************************************************************)
\* C20: unwrap and expect of some(x) return x and do not panic; unwrap and
\* expect of none return no value and panic, expect with the message its
\* caller passed; after a panic the program takes no further step.
C20_UnwrapOrPanic ==
  /\ opt_last.fn \in {"unwrap", "expect"} /\ opt_last.self.tag = "some" =>
       opt_last.ret = opt_last.self.t /\ opt_panic = -1
  /\ opt_last.fn \in {"unwrap", "expect"} /\ opt_last.self.tag = "none" =>
       opt_last.ret = -1 /\ opt_panic # -1
  /\ opt_last.fn = "expect" /\ opt_last.self.tag = "none" =>
       opt_panic = opt_last.msg
  /\ opt_panic # -1 =>
       /\ opt_last.self.tag = "none"
       /\ opt_last.ret = -1
       /\ ~ ENABLED OptNext

\* none.expect(msg) has panicked
C20_Witness ==
  /\ opt_last.fn = "expect"
  /\ opt_last.self.tag = "none"
  /\ opt_panic = MaxOptMsg

(***************************************************************************)
(* optional<T>: ok_or, take, take_if; expected<T, E>                       *)
(***************************************************************************)
\* C21: ok_or(e) turns some(x) into ok(x) and none into err(e);
\* expected::unwrap returns the payload of ok and panics on err, returning
\* nothing, so unwrap of none.ok_or(e) panics.
C21_OkOrThenUnwrap ==
  [][ /\ \A e \in OptErrs : OptOkOr(e) =>
           /\ opt_mx.tag = "some" => opt_mx2' = [tag |-> "ok", t |-> opt_mx.t]
           /\ opt_mx.tag = "none" => opt_mx2' = [tag |-> "err", t |-> e]
      /\ ExpUnwrap =>
           /\ opt_mx2.tag = "ok" =>
                opt_last'.ret = opt_mx2.t /\ opt_panic' = -1
           /\ opt_mx2.tag = "err" =>
                opt_last'.ret = -1 /\ opt_panic' # -1
      /\ opt_panic # -1 => ~ ENABLED ExpNext ]_vars

\* none.ok_or(e).unwrap() has panicked
C21_Witness ==
  /\ opt_mx.tag = "none"
  /\ opt_mx2 = [tag |-> "err", t |-> MaxOptErr]
  /\ opt_last.fn = "expected::unwrap"
  /\ opt_panic = ExpectedUnwrapMsg

\* the payloads an optional holds (none or one)
OptPayloads(o) == IF o.tag = "some" THEN 1 ELSE 0

\* C22: take returns what the optional held (some(x) for some(x), none for
\* none) and leaves the optional none; the payload is in exactly one place
\* afterwards and no destructor ran on it.
C22_TakeLeavesNone ==
  [][ OptTake =>
        /\ opt_res'.out = opt_mx
        /\ opt_mx' = OptNone
        /\ OptPayloads(opt_res'.out) + OptPayloads(opt_mx')
             = OptPayloads(opt_mx)
        /\ opt_res'.dtors = 0 ]_vars

\* take on some(x) has returned some(x)
C22_Witness ==
  /\ opt_res.out = [tag |-> "some", t |-> MaxOptValue]
  /\ opt_res.calls = 0
  /\ opt_mx = OptNone

\* C23: take_if(p) on some(x) with p(x) true returns some(x) and leaves
\* the source none; with p(x) false it returns none and leaves the source
\* some(x); on none it returns none, leaves none and does not call p.
C23_TakeIfUntouched ==
  [][ \A p \in OptPreds : OptTakeIf(p) =>
        /\ opt_mx.tag = "some" /\ opt_mx.t < p.lt =>
             opt_res'.out = opt_mx /\ opt_mx' = OptNone
        /\ opt_mx.tag = "some" /\ ~(opt_mx.t < p.lt) =>
             opt_res'.out = OptNone /\ opt_mx' = opt_mx
        /\ opt_mx.tag = "none" =>
             opt_res'.out = OptNone /\ opt_mx' = OptNone
               /\ opt_res'.calls = 0 ]_vars

\* C23 (amended): the same with x', the payload as the call p(x) left it, in
\* place of x in what is returned and what is left: p gets a mutable borrow
\* of the payload, and x' is x if p does not write through it.
C23_TakeIfAfterPredicate ==
  [][ \A p \in OptPreds : OptTakeIf(p) =>
        /\ opt_mx.tag = "some" /\ opt_mx.t < p.lt =>
             /\ opt_res'.out = [tag |-> "some", t |-> pred_writes(p, opt_mx.t)]
             /\ opt_mx' = OptNone
             /\ opt_res'.calls = 1
        /\ opt_mx.tag = "some" /\ ~(opt_mx.t < p.lt) =>
             /\ opt_res'.out = OptNone
             /\ opt_mx' = [tag |-> "some", t |-> pred_writes(p, opt_mx.t)]
             /\ opt_res'.calls = 1
        /\ opt_mx.tag = "none" =>
             opt_res'.out = OptNone /\ opt_mx' = OptNone
               /\ opt_res'.calls = 0
        /\ p.wr = -1 /\ opt_mx.tag = "some" =>
             opt_res'.out \in {opt_mx, OptNone}
               /\ opt_mx' \in {opt_mx, OptNone} ]_vars

\* take_if has called a predicate that returned false
C23_Witness ==
  /\ opt_res.calls = 1
  /\ opt_res.out = OptNone
  /\ opt_mx.tag = "some"

(***************************************************************************)
(* cell<T>                                                                 *)
(***************************************************************************)
\* C24: replace(v) on a cell holding x returns x and leaves the cell holding
\* v; so c.replace(c.get()) returns x and leaves the contents as they were.
C24_ReplaceReturnsOld ==
  [][ /\ \A v \in CopyValues : PCellReplace(v) =>
           cl_last'.ret = cl_t /\ cl_t' = v
      /\ PCellReplaceGet => cl_last'.ret = cl_t /\ cl_t' = cl_t ]_vars

\* replace returned a value other than the one it stored
C24_Witness ==
  /\ cl_last.fn = "replace"
  /\ cl_last.ret = MaxCopyValue
  /\ cl_t = 0

\* C25: get returns the value stored by the most recent set (by the
\* constructor if there was none) and leaves the cell unchanged; set(v)
\* makes v the stored value.
C25_GetReturnsLastSet ==
  [][ /\ PCellGet => cl_last'.ret = cl_put /\ cl_t' = cl_t
      /\ \A v \in CopyValues : PCellSet(v) =>
           cl_t' = v /\ cl_last'.ret = -1 ]_vars

\* get returned what set stored
C25_Witness ==
  /\ cl_last.fn = "get"
  /\ cl_last.ret = MaxCopyValue
  /\ cl_put = MaxCopyValue

(***************************************************************************)
(* thread                                                                  *)
(***************************************************************************)
\* C26: join returns only after the spawned callable has completed, and it
\* consumes the handle (no later step joins or detaches it); a handle whose
\* scope ends unjoined is detached and its thread runs on as before; no
\* handle is both joined and detached, or joined or detached twice.
C26_JoinOrDetach ==
  /\ [][\A h \in ThHandles :
          /\ ThJoinReturn(h) => th_run[h] = "done"
          /\ ThScopeExit(h) /\ th_handle[h] = "live" =>
               th_handle'[h] = "detached" /\ th_run' = th_run
          /\ th_handle[h] \in {"joined", "gone"} => th_ops'[h] = th_ops[h]
       ]_vars
  /\ [](\A h \in ThHandles :
          /\ th_ops[h].joins + th_ops[h].detaches <= 1
          /\ th_handle[h] = "detached" => th_ops[h].detaches = 1
          /\ th_handle[h] \in {"joined", "gone"} => th_ops[h].joins = 1)

\* one handle was joined and its scope ended; another was detached while its
\* callable was running, and the callable has completed since
C26_Witness ==
  /\ th_handle[1] = "gone"
  /\ th_handle[2] = "detached"
  /\ th_run[2] = "done"
  /\ th_handle[NumThHandles] = "joining"
  /\ th_run[NumThHandles] = "running"

(***************************************************************************)
(* box / arc / rc: the allocation in the constructor fails                 *)
(***************************************************************************)
\* C27: when the allocation made by the constructor of a box, arc or rc
\* fails, the program ends there: there is never a handle whose pointer is
\* null, and no dereference, copy or destructor runs on such a handle.
C27_AllocFailureIsFatal ==
  /\ af_p # "null"
  /\ af_nullops = 0
  /\ af_p = "none" /\ af_obj.kind # "none" =>
       af_status \in {"thrown", "terminated"} /\ af_handles = 0

C29_NewAndCopyCounts ==
  [][ /\ (\E t \in ArcThreads : ArcNew(t)) =>
           /\ arc_block' = "allocated" /\ arc_data' = "alive"
           /\ arc_strong' = 1 /\ arc_weak' = 1
           /\ ArcLive' = {1}
      /\ RcNew =>
           /\ rc_block' = "allocated" /\ rc_data' = "alive"
           /\ rc_strong' = 1 /\ rc_weak' = 1
           /\ RcLive' = {1}
      /\ \A t, t2 \in ArcThreads : ArcCopyIncr(t, t2) =>
           /\ arc_strong' = arc_strong + 1
           /\ arc_weak' = arc_weak
           /\ arc_block' = arc_block /\ arc_data' = arc_data
           /\ arc_block = "allocated" /\ arc_data = "alive"
           /\ ArcLive' = ArcLive \cup {arc_cur[t]}
           /\ arc_cur[t] \notin ArcLive
      /\ \A rhs \in RcHandles : RcCopy(rhs) =>
           /\ rc_strong' = rc_strong + 1
           /\ rc_weak' = rc_weak
           /\ rc_block' = rc_block /\ rc_data' = rc_data
           /\ rc_block = "allocated" /\ rc_data = "alive"
           /\ rhs \in RcLive'
           /\ Cardinality(RcLive') = Cardinality(RcLive) + 1
    ]_vars

\* every arc handle that can be made is a live copy, and weak is still 1
C29_Witness ==
  /\ arc_block = "allocated"
  /\ arc_data = "alive"
  /\ Cardinality(ArcLive) = MaxArcHandles
  /\ arc_strong = MaxArcHandles
  /\ arc_weak = 1

(***************************************************************************)
(* ref_cell: the guards' destructors                                       *)
(***************************************************************************)
\* C30: the destructor of a ref lowers the counter by exactly 1, that of a
\* ref_mut raises it by exactly 1, from -1 to 0; so when no guard of the
\* cell is live the counter is 0 and try_borrow, try_borrow_mut, borrow and
\* borrow_mut all succeed: a borrow_mut after an earlier ref_mut was
\* destroyed succeeds.
C30_GuardsGiveBack ==
  /\ cell_last.op = "~ref" => cell_last.post.c = cell_last.pre.c - 1
  /\ cell_last.op = "~ref_mut" =>
       /\ cell_last.post.c = cell_last.pre.c + 1
       /\ cell_last.pre.c = -1
  /\ CellRefs = {} /\ CellRefMuts = {} =>
       /\ cell_borrow = 0
       /\ try_borrow_ret(cell_borrow) = "some"
       /\ try_borrow_mut_ret(cell_borrow) = "some"
  /\ /\ cell_last.op \in {"try_borrow", "try_borrow_mut", "borrow",
                           "borrow_mut"}
     /\ cell_last.pre.refs + cell_last.pre.muts = 0
     => cell_last.ret = "some"

\* a ref_mut has just been destroyed and no guard is left
C30_Witness ==
  /\ cell_last.op = "~ref_mut"
  /\ cell_last.pre.muts = 1
  /\ cell_borrow = 0
  /\ CellRefs = {}
  /\ CellRefMuts = {}

(***************************************************************************)
(* shared_mutex: the guards' destructors and the payload                   *)
(***************************************************************************)
\* C31: destroying a lock_guard does the exclusive unlock and destroying a
\* shared_lock_guard the shared unlock, never the other one: the lock has a
\* writer exactly while a lock_guard is live and counts exactly the live
\* shared_lock_guards; so with every guard destroyed it has no writer and
\* no reader, and a lock() or lock_shared() that follows is granted.
C31_MatchingUnlock ==
  /\ [][\A t \in SmtxThreads :
          /\ SmtxGuardDrop(t) =>
               smtx_writer' = 0 /\ smtx_readers' = smtx_readers
          /\ SmtxSharedGuardDrop(t) =>
               smtx_writer' = smtx_writer
                 /\ smtx_readers' = smtx_readers - 1
       ]_vars
  /\ [](/\ smtx_readers = SmtxLiveShared
        /\ (smtx_writer # 0) = (SmtxLiveExclusive = 1)
        /\ SmtxLiveExclusive = 0 /\ SmtxLiveShared = 0 =>
             /\ smtx_writer = 0 /\ smtx_readers = 0
             /\ \A t \in SmtxThreads :
                  /\ smtx_pc[t] = "lock" => ENABLED SmtxLockReturn(t)
                  /\ smtx_pc[t] = "lock_shared" =>
                       ENABLED SmtxLockSharedReturn(t))

\* a lock_guard was used and destroyed, no guard is live, and a thread is
\* inside lock()
C31_Witness ==
  /\ smtx_data = MaxSmtxValue
  /\ SmtxLiveExclusive = 0
  /\ SmtxLiveShared = 0
  /\ smtx_pc[1] = "lock"
  /\ smtx_pc[2] = "lock_shared"

\* C32: making, reading through and destroying a shared_lock_guard leaves
\* the payload as it was; the payload changes only in a step of the thread
\* that holds the lock_guard.
C32_SharedGuardReadsOnly ==
  [][ /\ \A t \in SmtxThreads :
           \/ SmtxLockSharedReturn(t)
           \/ SmtxSharedGuardDrop(t)
           \/ SmtxRead(t) /\ smtx_sg[t] > 0
           => smtx_data' = smtx_data
      /\ smtx_data' # smtx_data =>
           \E t \in SmtxThreads :
             /\ smtx_writer = t
             /\ smtx_lg[t] = 1
             /\ \E v \in SmtxValues : SmtxWrite(t, v) ]_vars

\* shared guards are held on a payload that a writer changed before
C32_Witness ==
  /\ smtx_data = MaxSmtxValue
  /\ smtx_sg[1] = MaxSharedGuards
  /\ smtx_sg[2] >= 1
  /\ smtx_readers > MaxSharedGuards

(***************************************************************************)
(* C33: when the threads concurrently apply add_fetch(1) or prefix ++ to   *)
(* one atomic counter constructed with x, the values returned so far are   *)
(* pairwise distinct and are exactly x+1 .. x+k for the k calls made, and  *)
(* the counter holds x+k; with all N calls made the returned values are    *)
(* x+1 .. x+N and the counter holds x+N, under every interleaving.         *)
(***************************************************************************)
CntDone == {t \in CntThreads : cnt_pc[t] # "ready"}

C33_ConcurrentIncrements ==
  /\ \A t \in CntDone : \A u \in CntDone \ {t} : cnt_ret[t] # cnt_ret[u]
  /\ {cnt_ret[t] : t \in CntDone} = (cnt_x + 1)..(cnt_x + Cardinality(CntDone))
  /\ cnt_made => cnt_t = cnt_x + Cardinality(CntDone)

C33_Witness ==
  /\ cnt_x = MaxCntStart
  /\ CntDone = CntThreads
  /\ cnt_pc[1] = "add_fetch"
  /\ cnt_pc[2] = "++x"
  /\ cnt_ret[1] = cnt_x + NumCntThreads

(***************************************************************************)
(* C34: load() returns the value the counter holds and leaves it           *)
(* unchanged: after store(v) with no write in between load() returns v,    *)
(* and on an atomic just constructed with t it returns t.                  *)
(***************************************************************************)
C34_LoadReturnsValue ==
  atom_last.op = "load" =>
    /\ atom_t = atom_last.pre
    /\ atom_last.ret = atom_last.pre

(***************************************************************************)
(* C35: borrows taken through different rc handles to one ref_cell use one *)
(* counter and one payload: guards taken through handles to the same block *)
(* hold the same object and the same counter, which counts all of them;    *)
(* and a try_borrow made while a ref_mut taken through any handle to the   *)
(* block is live, or a try_borrow_mut made while any guard taken through   *)
(* any handle to the block is live, returns none.                          *)
(***************************************************************************)
C35_OneCounterPerBlock ==
  /\ \A g \in RccGuards : \A k \in RccGuards :
       /\ rcc_guard[g].kind # "none"
       /\ rcc_guard[k].kind # "none"
       /\ rcc_obj[rcc_guard[g].via] = rcc_obj[rcc_guard[k].via]
       => /\ rcc_guard[g].value = rcc_guard[k].value
          /\ rcc_guard[g].cnt = rcc_guard[k].cnt
  /\ \A h \in RccHandles :
       rcc_p[h] # 0 =>
         LET refs == Cardinality(RccGuardsOn(rcc_obj[h], {"ref"}))
             muts == Cardinality(RccGuardsOn(rcc_obj[h], {"ref_mut"})) IN
           /\ rcc_borrow[rcc_p[h]] = refs - muts
           /\ muts <= 1
           /\ muts = 1 => refs = 0
  /\ rcc_last.conflict => rcc_last.ret = "none"

\* as in rc_constructor: two refs taken through a handle and its copy, and a
\* try_borrow_mut through a third handle to the block refused
C35_Witness ==
  /\ \A h \in RccHandles : rcc_p[h] = 1
  /\ rcc_guard[1].kind = "ref" /\ rcc_guard[1].via = 1
  /\ rcc_guard[2].kind = "ref" /\ rcc_guard[2].via = 2
  /\ rcc_borrow[1] = 2
  /\ rcc_last = [op |-> "try_borrow_mut", via |-> NumRccHandles,
                 ret |-> "none", conflict |-> TRUE]

(***************************************************************************)
(* arc: the strong count under copies and drops                            *)
(***************************************************************************)
\* C36: the strong count of a block is never raised from 0: at every
\* increment made by a copy construction the count is at least 1, the
\* payload is alive and the block allocated, under every interleaving of
\* the copies and drops of threads that own handles; once the count of a
\* block is 0 it stays 0.
C36_NoRaiseFromZero ==
  /\ [][(\E t \in ArcThreads, t2 \in ArcThreads : ArcCopyIncr(t, t2)) =>
          /\ arc_strong >= 1
          /\ arc_strong' = arc_strong + 1
          /\ arc_data = "alive"
          /\ arc_block = "allocated"]_vars
  /\ [][arc_block # "none" /\ arc_strong = 0 => arc_strong' = 0]_vars

\* a copy is under way, between taking the pointer and the increment, while
\* another handle has been dropped and the count is down to 1
C36_Witness ==
  /\ \E t \in ArcThreads : arc_pc[t] = "copy"
  /\ \E h \in ArcHandles : arc_handle[h] = "dead"
  /\ arc_strong = 1

(***************************************************************************)
(* arc and rc: nothing is leaked                                           *)
(***************************************************************************)
\* weak_ is 1 from the construction of the block until the one decrement,
\* made by the destructor that destroyed the payload, and 0 from then on
\* (it is still 1 with the payload destroyed only inside that destructor);
\* with every handle destroyed the payload is destroyed and the block freed,
\* both by the handle whose decrement left strong_ at 0
NoLeak(block, data, weak, log, zero, handle, allgone) ==
  /\ data = "alive" => weak = 1
  /\ data = "destroyed" =>
       \/ weak = 0
       \/ weak = 1 /\ zero # {} /\ \A h \in zero : handle[h] = "dtor"
  /\ block # "none" => weak = (IF Entries(log, "weak") = {} THEN 1 ELSE 0)
  /\ \A i \in Entries(log, "weak") : Entries(log, "destroy") # {}
  /\ allgone => /\ data = "destroyed"
                /\ weak = 0
                /\ block = "freed"
                /\ \E h \in zero :
                     /\ \E i \in Entries(log, "destroy") : log[i].h = h
                     /\ \E i \in Entries(log, "free") : log[i].h = h

\* C37: no weak handle exists, so the weak count of an arc or rc block is 1
\* while the payload is alive and 0 once the destructor that destroyed the
\* payload has decremented it; once every handle to the block has been
\* destroyed, the payload has been destroyed and the block freed, both by
\* the destructor of the last handle.
C37_NoLeak ==
  /\ NoLeak(arc_block, arc_data, arc_weak, arc_log, arc_zero, arc_handle,
            ArcAllGone)
  /\ NoLeak(rc_block, rc_data, rc_weak, rc_log, rc_zero, rc_handle,
            RcAllGone)

\* every arc handle that could be made is destroyed and the first one was
\* the last to go: its destructor freed the block
C37_Witness ==
  /\ ArcAllGone
  /\ ArcDead = ArcHandles
  /\ arc_weak = 0
  /\ arc_zero = {1}
  /\ arc_block = "freed"

(***************************************************************************)
(* ref_cell: the borrow counter as an int                                  *)
(***************************************************************************)
\* C38: with the borrow counter a signed integer of BorrowBits bits, a
\* try_borrow that finds a counter c >= 0, the largest int included, either
\* returns a ref and leaves c + 1 > 0 or refuses and leaves c; the counter is
\* never negative while refs are live.
C38_BorrowNeverWraps ==
  /\ bw_last.op = "try_borrow" /\ bw_last.pre >= 0 =>
       \/ /\ bw_last.ret = "some"
          /\ bw_last.post = bw_last.pre + 1
          /\ bw_last.post > 0
       \/ /\ bw_last.ret = "none"
          /\ bw_last.post = bw_last.pre
  /\ bw_live > 0 => bw_borrow >= 0

(***************************************************************************)
(* mutex, shared_mutex: who unlocks                                        *)
(***************************************************************************)
\* C39: every unlock of the std::mutex happens while the mutex is held and
\* is made by the thread that acquired it; there are never more unlocks than
\* completed lock acquisitions; a guard is never destroyed on, or in the
\* hands of, a thread other than the one whose lock() made it.
C39_UnlockByAcquirer ==
  /\ lg_last.op = "unlock" =>
       /\ lg_last.owner # 0
       /\ lg_last.owner = lg_last.by
       /\ lg_last.maker = lg_last.by
  /\ lg_unlocks <= lg_locks
  /\ lg_guard # 0 => lg_guard = lg_maker /\ lg_guard = lg_owner

(***************************************************************************)
(* thread: the heap tuple of the constructor                               *)
(***************************************************************************)
TcFrees(h) == {i \in DOMAIN tc_log[h] : tc_log[h][i].ev = "free"}

====
